---- MODULE Spec2Model ----
(***************************************************************************)
(* Model of lakehouse-admin: the durable task queue                        *)
(* (backend/internal/service_task_queue.go), the task planner              *)
(* (backend/internal/service_tasks.go), the worker steps that claim and    *)
(* complete tasks (backend/internal/module_tasks.go), the metadata refresh *)
(* (backend/service_refresh.go and its callers) and the maintenance        *)
(* executor with its DateTime type                                         *)
(* (backend/service_maintenance_executor.go).                              *)
(*                                                                         *)
(* Granularity: one action per database statement; the local computation  *)
(* that leads to a statement is part of its action.                        *)
(*                                                                         *)
(* Spec        the queue under concurrent enqueuers, claimers and flushes  *)
(* SpecRace    two ClaimTask calls racing for a single queued row          *)
(* SpecPlanner concurrent planner requests over stored partition rows      *)
(* SpecPlannerFault EnqueueOptimize with failing dates and INSERTs           *)
(* SpecWorker  one worker module: ticker, semaphore, handlers, shutdown    *)
(* SpecSettings the running worker module and the settings handler         *)
(* SpecAdmin   the queue with FlushTasks and TaskCounts and their results  *)
(* SpecClaim   ClaimTask over queues of several tables and ages            *)
(* SpecContend ClaimTask calls that lose their updates to each other        *)
(* SpecClaimFault ClaimTask calls whose statements the database fails       *)
(* SpecFlush   the worker module with FlushTasks while handlers run        *)
(* SpecFlushWide the same for modules of every capacity                     *)
(* SpecCapacity the worker module while SetWorkerCount changes the limit    *)
(* SpecLive    the worker module with a fair ticker, database and handlers  *)
(* SpecList    ListTasks after an enqueue, over filters and pages          *)
(* SpecRefresh the refresh steps, the periodic module, a refresh request   *)
(* SpecRefreshCancel the periodic module while its context is cancelled     *)
(* SpecOptimize ExecuteOptimize over stored descriptors                    *)
(* SpecDateTime DateTime JSON conversion over texts and times              *)
(***************************************************************************)
EXTENDS Integers, Sequences, FiniteSets, Bags, TLC

VARIABLES
    tasks,      \* the tasks table: function from id to row
    nextId,     \* AUTO_INCREMENT counter of tasks.id
    now,        \* the wall clock, read by time.Now()
    partitions, \* the partitions table: set of rows
    calls,      \* per caller: position inside a planner call
    claim,      \* per claimer: position inside ClaimTask / tryProcessTask
    worker,     \* one worker module: semaphore, dispatcher, handlers
    admin,      \* what the last operational call returned
    refresh,    \* the metadata refresh: catalog, stored rows, module, request
    executor    \* one call of the maintenance executor or of a DateTime conversion

vars == <<tasks, nextId, now, partitions, calls, claim, worker, admin, refresh, executor>>

(***************************************************************************)
(* Bounds of the model.                                                    *)
(***************************************************************************)
MaxTasks == 2          \* rows ever inserted in one behaviour
MaxTime == 1           \* the clock runs over 0..MaxTime
MaxPartitions == 3     \* stored partition rows
MaxPlannedTasks == 3   \* rows in the tasks table while the planner is exercised
MaxWorkerTasks == 2    \* tasks queued for the worker module
MaxWorkers == 2        \* largest semaphore limit that is set

Tables == {"events", "orders"}
Callers == {"r1", "r2"}
Claimers == {"w1", "w2"}

(***************************************************************************)
(* Program constants.                                                      *)
(***************************************************************************)
minRetentionDays == 7
minRetainLast == 10
defaultFileSizeThresholdMb == 128
claimAttempts == 3

NULL == -1                 \* SQL NULL in a TIMESTAMP column
NoMessage == "NULL"        \* SQL NULL in error_message
Max(a, b) == IF a < b THEN b ELSE a

NoTask == [id |-> 0, status |-> "none", picked_up_at |-> NULL]   \* a nil *Task

(***************************************************************************)
(* Dates and strings                                                       *)
(***************************************************************************)
\* A time.Time at day resolution; the zero Time is January 1, year 1.
ZeroTime == [y |-> 1, m |-> 1, d |-> 1]
Date(y, m, d) == [y |-> y, m |-> m, d |-> d]

IsZero(t) == t = ZeroTime

After(a, b) ==
    \/ a.y > b.y
    \/ a.y = b.y /\ a.m > b.m
    \/ a.y = b.y /\ a.m = b.m /\ a.d > b.d

\* Strings are sequences of characters; Chars lists the characters that occur
\* in date strings in their collation order.
Chars == <<"-", "0", "1", "2", "3", "4", "5", "6", "7", "8", "9">>
Code(c) == CHOOSE i \in 1..Len(Chars) : Chars[i] = c
DigitChar(n) == Chars[n + 2]
DigitValue(c) == Code(c) - 2

\* String comparison of the database: a < b.
RECURSIVE StrLess(_, _)
StrLess(a, b) ==
    IF b = <<>> THEN FALSE
    ELSE IF a = <<>> THEN TRUE
    ELSE IF Head(a) = Head(b) THEN StrLess(Tail(a), Tail(b))
    ELSE Code(Head(a)) < Code(Head(b))

StrLeq(a, b) == a = b \/ StrLess(a, b)

\* Faulty variant: LPAD that returns its argument as it is.
NoLpad(str, n, pad) == str

\* LPAD(str, n, pad): pads on the left up to n characters, and cuts a longer
\* string down to its first n characters.
RECURSIVE Lpad(_, _, _)
Lpad(str, n, pad) ==
    IF Len(str) >= n THEN SubSeq(str, 1, n) ELSE Lpad(<<pad>> \o str, n, pad)

\* Decimal digits of n, zero padded to the given width.
RECURSIVE Digits(_, _)
Digits(n, width) ==
    IF width = 0 THEN <<>> ELSE Digits(n \div 10, width - 1) \o <<DigitChar(n % 10)>>

\* t.Format(time.DateOnly), layout "2006-01-02"
FormatDateOnly(t) == Digits(t.y, 4) \o <<"-">> \o Digits(t.m, 2) \o <<"-">> \o Digits(t.d, 2)

RECURSIVE Atoi(_)
Atoi(str) ==
    IF str = <<>> THEN 0
    ELSE Atoi(SubSeq(str, 1, Len(str) - 1)) * 10 + DigitValue(str[Len(str)])

IsLeap(y) == (y % 4 = 0 /\ y % 100 # 0) \/ y % 400 = 0
DaysIn(y, m) ==
    IF m = 2 THEN (IF IsLeap(y) THEN 29 ELSE 28)
    ELSE IF m \in {4, 6, 9, 11} THEN 30 ELSE 31

\* time.Parse("2006-1-2", year-month-day): the year takes four digits, month
\* and day one or two, and the date has to exist.
ParseFails(row) ==
    \/ Len(row.year) # 4
    \/ Len(row.month) \notin {1, 2}
    \/ Len(row.day) \notin {1, 2}
    \/ Atoi(row.month) \notin 1..12
    \/ Atoi(row.day) \notin 1..DaysIn(Atoi(row.year), Atoi(row.month))

ParseDate(row) == Date(Atoi(row.year), Atoi(row.month), Atoi(row.day))

(***************************************************************************)
(* Task queue: EnqueueTask                                                 *)
(***************************************************************************)
\* The entry built by EnqueueTask before it is sent to the database.
NewEntry(table, kind, input, startedAt) ==
    [table |-> table, kind |-> kind, started_at |-> startedAt,
     picked_up_at |-> NULL, finished_at |-> NULL, status |-> "queued",
     error_message |-> NoMessage, input |-> input, result |-> "{}"]

\* INSERT INTO tasks: the row gets the next AUTO_INCREMENT id.
InsertRow(tbl, id, row) ==
    [i \in (DOMAIN tbl) \cup {id} |-> IF i = id THEN row ELSE tbl[i]]

\* Faulty variant: an INSERT that does not advance the AUTO_INCREMENT counter.
EnqueueTaskSameId(table, kind, input, startedAt) ==
    /\ startedAt \in 0..now
    /\ tasks' = InsertRow(tasks, nextId, NewEntry(table, kind, input, startedAt))
    /\ nextId' = nextId

\* EnqueueTask.  StartedAt is the caller's time.Now(), read before the INSERT
\* reaches the database: when the row becomes visible its started_at is some
\* instant not later than the present one (calls overlap, and each instance
\* reads its own clock).  The id is the next AUTO_INCREMENT value.
EnqueueTask(table, kind, input, startedAt) ==
    /\ startedAt \in 0..now
    /\ tasks' = InsertRow(tasks, nextId, NewEntry(table, kind, input, startedAt))
    /\ nextId' = nextId + 1

\* EnqueueTask called on its own, as the queue sees it from any caller.
Enqueue(table, kind, input, startedAt) ==
    /\ nextId <= MaxTasks
    /\ EnqueueTask(table, kind, input, startedAt)
    /\ UNCHANGED <<now, partitions, calls, claim, worker, admin, refresh, executor>>

(***************************************************************************)
(* Task queue: ClaimTask                                                   *)
(***************************************************************************)
\* Faulty variant: a table counts as busy once one of its tasks was claimed.
RunningTablesEver(tbl) == {tbl[i].table : i \in {j \in DOMAIN tbl : tbl[j].status # "queued"}}

RunningTables(tbl) == {tbl[i].table : i \in {j \in DOMAIN tbl : tbl[j].status = "running"}}

\* WHERE status = 'queued' AND table NOT IN (SELECT table FROM tasks WHERE status = 'running')
Eligible(tbl) ==
    {i \in DOMAIN tbl : tbl[i].status = "queued" /\ tbl[i].table \notin RunningTables(tbl)}

\* Faulty variant: a SELECT that takes the oldest queued row and gives up
\* when its table is busy.
CandidatesHeadOfLine(tbl) ==
    {i \in DOMAIN tbl :
        /\ tbl[i].status = "queued"
        /\ \A j \in DOMAIN tbl :
              tbl[j].status = "queued" => tbl[i].started_at <= tbl[j].started_at
        /\ \A j \in DOMAIN tbl :
              (tbl[j].status = "queued" /\ tbl[j].started_at = tbl[i].started_at) =>
                  tbl[j].table \notin RunningTables(tbl)}

\* ORDER BY started_at ASC LIMIT 1: any row with the least started_at
\* (SQL leaves the order of rows with equal sort keys unspecified).
Candidates(tbl) ==
    {i \in Eligible(tbl) : \A j \in Eligible(tbl) : tbl[i].started_at <= tbl[j].started_at}

\* Faulty variant: the claiming UPDATE without its status condition.
CasAnyStatus(tbl, id) == id \in DOMAIN tbl

\* WHERE id = ? AND status = 'queued' of the claiming UPDATE.
CasApplies(tbl, id) == id \in DOMAIN tbl /\ tbl[id].status = "queued"

\* Faulty variant: the claiming UPDATE without SET picked_up_at.
ClaimedRowNoPickup(row, t) == [row EXCEPT !.status = "running"]

\* SET status = 'running', picked_up_at = now
ClaimedRow(row, t) == [row EXCEPT !.status = "running", !.picked_up_at = t]

\* What ClaimTask returns with an error: a nil *Task and the error.
ClaimFailed == [id |-> 0, status |-> "error", picked_up_at |-> NULL]

\* Faulty variant: a SELECT whose error is returned to the caller.
ClaimSelectStrict(c, dbOk) ==
    /\ claim[c].pc = "idle"
    /\ IF ~dbOk
         THEN claim' = [claim EXCEPT ![c] = [pc |-> "returned", i |-> claim[c].i, cand |-> 0,
                                            ret |-> ClaimFailed]]
         ELSE IF Candidates(tasks) = {}
         THEN claim' = [claim EXCEPT ![c] = [pc |-> "returned", i |-> 0, cand |-> 0, ret |-> NoTask]]
         ELSE \E id \in Candidates(tasks) :
                 claim' = [claim EXCEPT ![c].pc = "update", ![c].cand = id]
    /\ UNCHANGED <<tasks, nextId, now, partitions, calls, worker, admin, refresh, executor>>

\* Step 1 of a loop iteration: the candidate SELECT.  Get returns an error
\* when no row matches and when the database fails the statement (dbOk
\* false); ClaimTask takes either as an empty queue and returns nil, nil.
ClaimSelect(c, dbOk) ==
    /\ claim[c].pc = "idle"
    /\ IF ~dbOk \/ Candidates(tasks) = {}
         THEN claim' = [claim EXCEPT ![c] = [pc |-> "returned", i |-> 0, cand |-> 0, ret |-> NoTask]]
         ELSE \E id \in Candidates(tasks) :
                 claim' = [claim EXCEPT ![c].pc = "update", ![c].cand = id]
    /\ UNCHANGED <<tasks, nextId, now, partitions, calls, worker, admin, refresh, executor>>

\* Faulty variant: a loop that selects again after every lost update, with
\* no bound on the attempts.
ClaimUpdateUnbounded(c, dbOk) ==
    /\ claim[c].pc = "update"
    /\ LET id == claim[c].cand IN
       IF ~dbOk
         THEN /\ tasks' = tasks
              /\ claim' = [claim EXCEPT ![c] = [pc |-> "returned", i |-> 0, cand |-> 0,
                                                 ret |-> ClaimFailed]]
       ELSE IF CasApplies(tasks, id)
         THEN /\ tasks' = [tasks EXCEPT ![id] = ClaimedRow(tasks[id], now)]
              /\ claim' = [claim EXCEPT ![c] = [pc |-> "returned", i |-> 0, cand |-> 0,
                              ret |-> [id |-> id, status |-> "running", picked_up_at |-> now]]]
         ELSE /\ tasks' = tasks
              /\ claim' = [claim EXCEPT ![c] = [pc |-> "idle", i |-> claim[c].i + 1,
                                                 cand |-> 0, ret |-> NoTask]]
    /\ UNCHANGED <<nextId, now, partitions, calls, worker, admin, refresh, executor>>

\* Step 2 of a loop iteration: the compare-and-set UPDATE and the loop control.
\* When the loop runs out, i is left at the number of attempts made.  An
\* UPDATE that the database fails (dbOk false) ends the call with the error.
ClaimUpdate(c, dbOk) ==
    /\ claim[c].pc = "update"
    /\ LET id == claim[c].cand IN
       IF ~dbOk
         THEN /\ tasks' = tasks
              /\ claim' = [claim EXCEPT ![c] = [pc |-> "returned", i |-> 0, cand |-> 0,
                                                 ret |-> ClaimFailed]]
       ELSE IF CasApplies(tasks, id)
         THEN /\ tasks' = [tasks EXCEPT ![id] = ClaimedRow(tasks[id], now)]
              /\ claim' = [claim EXCEPT ![c] = [pc |-> "returned", i |-> 0, cand |-> 0,
                              ret |-> [id |-> id, status |-> "running", picked_up_at |-> now]]]
         ELSE /\ tasks' = tasks
              /\ IF claim[c].i + 1 < claimAttempts
                   THEN claim' = [claim EXCEPT ![c] = [pc |-> "idle", i |-> claim[c].i + 1,
                                                     cand |-> 0, ret |-> NoTask]]
                   ELSE claim' = [claim EXCEPT ![c] = [pc |-> "returned", i |-> claim[c].i + 1,
                                                     cand |-> 0, ret |-> NoTask]]
    /\ UNCHANGED <<nextId, now, partitions, calls, worker, admin, refresh, executor>>

(***************************************************************************)
(* Task queue: CompleteTask, FlushTasks                                    *)
(***************************************************************************)
\* Faulty variant: a failed task is put back into the queue.
RequeuedRow(row, failed, t) ==
    [row EXCEPT !.finished_at = IF failed THEN NULL ELSE t,
                !.picked_up_at = IF failed THEN NULL ELSE row.picked_up_at,
                !.status = IF failed THEN "queued" ELSE "success",
                !.result = IF failed THEN "{}" ELSE "res"]

CompletedRow(row, failed, t) ==
    [row EXCEPT !.finished_at = t,
                !.status = IF failed THEN "error" ELSE "success",
                !.error_message = IF failed THEN "err" ELSE NoMessage,
                !.result = IF failed THEN "null" ELSE "res"]

\* Faulty variant: a completion that writes the row back when it is gone.
CompleteTaskUpsert(tbl, id, failed, t) ==
    [i \in (DOMAIN tbl) \cup {id} |->
        IF i # id THEN tbl[i]
        ELSE IF id \in DOMAIN tbl THEN CompletedRow(tbl[i], failed, t)
        ELSE CompletedRow(NewEntry("events", "optimize", "{}", 0), failed, t)]

\* UPDATE tasks SET ... WHERE id = ?
CompleteTask(tbl, id, failed, t) ==
    [i \in DOMAIN tbl |-> IF i = id THEN CompletedRow(tbl[i], failed, t) ELSE tbl[i]]

\* DELETE FROM tasks
FlushTasks ==
    /\ tasks' = <<>>
    /\ UNCHANGED <<nextId, now, partitions, calls, claim, worker, admin, refresh, executor>>

(***************************************************************************)
(* Worker: what tryProcessTask does with the outcome of ClaimTask          *)
(***************************************************************************)
\* No task: the permit is released and the tick ends.
NoTaskClaimed(c) ==
    /\ claim[c].pc = "returned"
    /\ claim[c].ret.id = 0
    /\ claim' = [claim EXCEPT ![c] = [pc |-> "idle", i |-> 0, cand |-> 0, ret |-> NoTask]]
    /\ UNCHANGED <<tasks, nextId, now, partitions, calls, worker, admin, refresh, executor>>

\* processTask: the kind handler returns (failed or not), then CompleteTask.
ProcessTask(c, failed) ==
    /\ claim[c].pc = "returned"
    /\ claim[c].ret.id # 0
    /\ tasks' = CompleteTask(tasks, claim[c].ret.id, failed, now)
    /\ claim' = [claim EXCEPT ![c] = [pc |-> "idle", i |-> 0, cand |-> 0, ret |-> NoTask]]
    /\ UNCHANGED <<nextId, now, partitions, calls, worker, admin, refresh, executor>>

\* Time passes.
Tick ==
    /\ now < MaxTime
    /\ now' = now + 1
    /\ UNCHANGED <<tasks, nextId, partitions, calls, claim, worker, admin, refresh, executor>>

(***************************************************************************)
(* Task planner                                                            *)
(***************************************************************************)
\* taskInput of the three planner operations
ExpireInput(retentionDays, retainLast) ==
    [retention_days |-> retentionDays, retain_last |-> retainLast]
OrphanInput(retentionDays) == [retention_days |-> retentionDays]
OptimizeInput(fileSizeThresholdMb, partitionDate) ==
    [file_size_threshold_mb |-> fileSizeThresholdMb,
     from |-> partitionDate, to |-> partitionDate]

\* Faulty variant: a clamp that takes the smaller value.
ClampDown(value, min) == IF value > min THEN min ELSE value

\* if value < min { value = min }
Clamp(value, min) == IF value < min THEN min ELSE value

\* if fileSizeThresholdMb < 1 { fileSizeThresholdMb = 128 }
Threshold(fileSizeThresholdMb) ==
    IF fileSizeThresholdMb < 1 THEN defaultFileSizeThresholdMb ELSE fileSizeThresholdMb

\* Faulty variant: a validation that does not look at from.IsZero().
RangeRejectedNoZero(from, to) == After(from, to)

\* The date range validation of EnqueueOptimize.
RangeRejected(from, to) == IsZero(from) \/ IsZero(to) \/ After(from, to)

\* CONCAT(year, '-', LPAD(month, 2, '0'), '-', LPAD(day, 2, '0'))
DatePath(row) ==
    row.year \o <<"-">> \o Lpad(row.month, 2, "0") \o <<"-">> \o Lpad(row.day, 2, "0")

\* WHERE table = ? AND needs_optimize AND datePath >= from AND datePath <= to
Selected(parts, table, from, to) ==
    {r \in parts :
        /\ r.table = table
        /\ r.needs_optimize
        /\ StrLeq(FormatDateOnly(from), DatePath(r))
        /\ StrLeq(DatePath(r), FormatDateOnly(to))}

\* Faulty variant: a query without ORDER BY.
AnyOrder(rows) == TRUE

\* ORDER BY datePath ASC
Ordered(rows) ==
    \A i, j \in 1..Len(rows) : i < j => StrLeq(DatePath(rows[i]), DatePath(rows[j]))

\* The results the SELECT may deliver: the selected rows, each once, in any
\* order that ORDER BY allows, reduced to the columns year, month and day.
SelectPartitions(parts, table, from, to) ==
    LET sel == Selected(parts, table, from, to)
        orders == {f \in [1..Cardinality(sel) -> sel] :
                      /\ \A i, j \in DOMAIN f : f[i] = f[j] => i = j
                      /\ Ordered(f)}
    IN {[i \in DOMAIN f |-> [year |-> f[i].year, month |-> f[i].month, day |-> f[i].day]] :
            f \in orders}

NoArgs == [table |-> "", fileSizeThresholdMb |-> 0, from |-> ZeroTime, to |-> ZeroTime,
           retentionDays |-> 0, retainLast |-> 0]
OptimizeArgs(table, fileSizeThresholdMb, from, to) ==
    [NoArgs EXCEPT !.table = table, !.fileSizeThresholdMb = fileSizeThresholdMb,
                   !.from = from, !.to = to]
ExpireArgs(table, retentionDays, retainLast) ==
    [NoArgs EXCEPT !.table = table, !.retentionDays = retentionDays,
                   !.retainLast = retainLast]
OrphanArgs(table, retentionDays) ==
    [NoArgs EXCEPT !.table = table, !.retentionDays = retentionDays]

\* A request to the planner: its operation and arguments, the partition rows
\* still to be processed by the loop, and what it has returned or will return.
\* pc is "start" before the call, "loop" inside the loop of EnqueueOptimize
\* and "done" once the call has returned.
IdleCall == [pc |-> "start", op |-> "none", args |-> NoArgs, rows |-> <<>>,
             ids |-> <<>>, err |-> FALSE]

\* EnqueueExpireSnapshots
EnqueueExpireSnapshots(p, table, retentionDays, retainLast) ==
    /\ calls[p].pc = "start"
    /\ nextId <= MaxPlannedTasks
    /\ \E startedAt \in 0..now :
          EnqueueTask(table, "expire_snapshots",
                      ExpireInput(Clamp(retentionDays, minRetentionDays),
                                  Clamp(retainLast, minRetainLast)), startedAt)
    /\ calls' = [calls EXCEPT ![p] =
                    [pc |-> "done", op |-> "expire_snapshots",
                     args |-> ExpireArgs(table, retentionDays, retainLast),
                     rows |-> <<>>, ids |-> <<nextId>>, err |-> FALSE]]
    /\ UNCHANGED <<now, partitions, claim, worker, admin, refresh, executor>>

\* EnqueueRemoveOrphanFiles
EnqueueRemoveOrphanFiles(p, table, retentionDays) ==
    /\ calls[p].pc = "start"
    /\ nextId <= MaxPlannedTasks
    /\ \E startedAt \in 0..now :
          EnqueueTask(table, "remove_orphan_files",
                      OrphanInput(Clamp(retentionDays, minRetentionDays)), startedAt)
    /\ calls' = [calls EXCEPT ![p] =
                    [pc |-> "done", op |-> "remove_orphan_files",
                     args |-> OrphanArgs(table, retentionDays),
                     rows |-> <<>>, ids |-> <<nextId>>, err |-> FALSE]]
    /\ UNCHANGED <<now, partitions, claim, worker, admin, refresh, executor>>

\* EnqueueOptimize up to the loop: validation and the SELECT.  A call that
\* fails validation, or whose SELECT delivers no row, returns at once.
EnqueueOptimize(p, table, fileSizeThresholdMb, from, to) ==
    /\ calls[p].pc = "start"
    /\ LET args == OptimizeArgs(table, fileSizeThresholdMb, from, to) IN
       IF RangeRejected(from, to)
         THEN calls' = [calls EXCEPT ![p] =
                           [pc |-> "done", op |-> "optimize", args |-> args,
                            rows |-> <<>>, ids |-> <<>>, err |-> TRUE]]
         ELSE \E rows \in SelectPartitions(partitions, table, from, to) :
                 calls' = [calls EXCEPT ![p] =
                              [pc |-> IF rows = <<>> THEN "done" ELSE "loop",
                               op |-> "optimize", args |-> args,
                               rows |-> rows, ids |-> <<>>, err |-> FALSE]]
    /\ UNCHANGED <<tasks, nextId, now, partitions, claim, worker, admin, refresh, executor>>

\* Faulty variant: a loop that takes back the tasks it enqueued when a later
\* partition fails.
EnqueueOptimizeLoopAtomic(p, dbOk) ==
    /\ calls[p].pc = "loop"
    /\ LET row == Head(calls[p].rows)
           rest == Tail(calls[p].rows)
           mine == {calls[p].ids[i] : i \in DOMAIN calls[p].ids}
       IN IF ParseFails(row) \/ ~dbOk
            THEN /\ calls' = [calls EXCEPT ![p].pc = "done", ![p].rows = <<>>,
                                           ![p].ids = <<>>, ![p].err = TRUE]
                 /\ tasks' = [i \in DOMAIN tasks \ mine |-> tasks[i]]
                 /\ UNCHANGED nextId
            ELSE /\ nextId <= MaxPlannedTasks
                 /\ \E startedAt \in 0..now :
                       EnqueueTask(calls[p].args.table, "optimize",
                                   OptimizeInput(Threshold(calls[p].args.fileSizeThresholdMb),
                                                 ParseDate(row)), startedAt)
                 /\ calls' = [calls EXCEPT ![p].pc = IF rest = <<>> THEN "done" ELSE "loop",
                                           ![p].rows = rest,
                                           ![p].ids = Append(calls[p].ids, nextId)]
    /\ UNCHANGED <<now, partitions, claim, worker, admin, refresh, executor>>

\* One iteration of the loop of EnqueueOptimize: parse the partition's date
\* and enqueue its task; after the last row the call returns the ids.  A
\* date that does not parse, or an EnqueueTask that the database fails
\* (dbOk false), ends the call with the error and no ids.
EnqueueOptimizeLoop(p, dbOk) ==
    /\ calls[p].pc = "loop"
    /\ LET row == Head(calls[p].rows)
           rest == Tail(calls[p].rows)
       IN IF ParseFails(row) \/ ~dbOk
            THEN /\ calls' = [calls EXCEPT ![p].pc = "done", ![p].rows = <<>>,
                                           ![p].ids = <<>>, ![p].err = TRUE]
                 /\ UNCHANGED <<tasks, nextId>>
            ELSE /\ nextId <= MaxPlannedTasks
                 /\ \E startedAt \in 0..now :
                       EnqueueTask(calls[p].args.table, "optimize",
                                   OptimizeInput(Threshold(calls[p].args.fileSizeThresholdMb),
                                                 ParseDate(row)), startedAt)
                 /\ calls' = [calls EXCEPT ![p].pc = IF rest = <<>> THEN "done" ELSE "loop",
                                           ![p].rows = rest,
                                           ![p].ids = Append(calls[p].ids, nextId)]
    /\ UNCHANGED <<now, partitions, claim, worker, admin, refresh, executor>>

(***************************************************************************)
(* Specification of the queue under concurrent callers and claimers        *)
(***************************************************************************)
IdleClaim == [pc |-> "idle", i |-> 0, cand |-> 0, ret |-> NoTask]

\* The worker module as ProvideModuleTasks builds it, with the semaphore at
\* the given limit, and the module that HandlerSettings holds.  asked is the
\* count the limit was last set from, setting the stored task_concurrency
\* (0 when none is stored), put the outcome of the last PUT and putValue
\* the value it carried.
NewWorker(workerCount) ==
    [limit |-> workerCount, asked |-> workerCount, count |-> 0,
     handlerLimit |-> workerCount, setting |-> 0,
     put |-> "none", putValue |-> 0, disp |-> "wait", tick |-> "none", log |-> <<>>,
     cancelled |-> FALSE, returned |-> "running"]

IdleWorker == NewWorker(1)

\* No operational call has returned yet.  op is the last call, err whether
\* it returned an error, deleted what
\* FlushTasks returned, running and queued what TaskCounts returned, and
\* flushedAt the AUTO_INCREMENT counter at the last FlushTasks; id is what
\* EnqueueTask returned, args what ListTasks was called with, items and
\* total what it returned.
NoListArgs == [table |-> "", kinds |-> {}, statuses |-> {}, limit |-> 0, offset |-> 0]

NoAdmin ==
    [op |-> "none", err |-> FALSE, deleted |-> 0, running |-> 0, queued |-> 0, flushedAt |-> 0,
     id |-> 0, args |-> NoListArgs, items |-> <<>>, total |-> 0]

\* The metadata refresh before anything has run: an empty catalog view, empty
\* stores, the periodic module waiting for its first tick, no request.
\* partitions is a bag (the partitions table has no primary key), tables and
\* snapshots are sets (primary keys name and (table, snapshot_id)).
NoFull == [owner |-> "none", table |-> "", step |-> "none", failedAt |-> "none"]

NoModule == [pc |-> "wait", i |-> 0, listing |-> <<>>, called |-> <<>>, failed |-> {},
             listFailed |-> FALSE, cancelled |-> FALSE]

NoRequest == [pc |-> "idle", table |-> "", err |-> FALSE, count |-> 0]

\* No call of the maintenance executor in progress.
NoExecutor == [pc |-> "none"]

NoRefresh ==
    [catalog |-> <<>>, tables |-> {}, partitions |-> EmptyBag, snapshots |-> {},
     full |-> NoFull, module |-> NoModule, request |-> NoRequest,
     refreshed |-> [t \in Tables |-> 0]]

Init ==
    /\ tasks = <<>>
    /\ nextId = 1
    /\ now = 0
    /\ partitions = {}
    /\ calls = [p \in Callers |-> IdleCall]
    /\ claim = [c \in Claimers |-> IdleClaim]
    /\ worker = IdleWorker
    /\ admin = NoAdmin
    /\ refresh = NoRefresh
    /\ executor = NoExecutor

Next ==
    \/ \E t \in Tables, s \in 0..MaxTime : Enqueue(t, "remove_orphan_files", OrphanInput(minRetentionDays), s)
    \/ \E c \in Claimers : ClaimSelect(c, TRUE)
    \/ \E c \in Claimers : ClaimUpdate(c, TRUE)
    \/ \E c \in Claimers : NoTaskClaimed(c)
    \/ \E c \in Claimers, failed \in BOOLEAN : ProcessTask(c, failed)
    \/ FlushTasks
    \/ Tick

Spec == Init /\ [][Next]_vars

(***************************************************************************)
(* Two claimers racing for a single queued task                            *)
(***************************************************************************)
TerminalRows ==
    {[table |-> t, kind |-> "remove_orphan_files", started_at |-> 0, picked_up_at |-> 0,
      finished_at |-> 0, status |-> st,
      error_message |-> IF st = "error" THEN "err" ELSE NoMessage,
      input |-> OrphanInput(minRetentionDays), result |-> IF st = "error" THEN "null" ELSE "res"] :
        t \in Tables, st \in {"success", "error"}}

\* Exactly one queued row, no running row, no ClaimTask call under way.
InitRace ==
    /\ now \in 0..MaxTime
    /\ \E n \in 1..MaxTasks, q \in 1..MaxTasks, t \in Tables, s \in 0..MaxTime :
          /\ q <= n
          /\ s <= now
          /\ nextId = n + 1
          /\ tasks \in [1..n -> TerminalRows \cup {NewEntry(t, "remove_orphan_files", OrphanInput(minRetentionDays), s)}]
          /\ \A i \in 1..n : tasks[i].status = "queued" <=> i = q
    /\ partitions = {}
    /\ calls = [p \in Callers |-> IdleCall]
    /\ claim = [c \in Claimers |-> IdleClaim]
    /\ worker = IdleWorker
    /\ admin = NoAdmin
    /\ refresh = NoRefresh
    /\ executor = NoExecutor

\* Each claimer calls ClaimTask once; nothing else touches the table.
NextRace ==
    \/ \E c \in Claimers : ClaimSelect(c, TRUE)
    \/ \E c \in Claimers : ClaimUpdate(c, TRUE)
    \/ Tick

SpecRace == InitRace /\ [][NextRace]_vars

(***************************************************************************)
(* The planner under concurrent requests                                   *)
(***************************************************************************)
\* Stored partition rows: padded and unpadded month and day values, two rows
\* of one day that differ in a further partition level, a row that does not
\* need optimization, a row of another table, and a row of a later month.
PartitionRow(table, year, month, day, hour, needsOptimize) ==
    [table |-> table, year |-> year, month |-> month, day |-> day, hour |-> hour,
     needs_optimize |-> needsOptimize]

PartitionUniverse ==
    {PartitionRow("events", <<"2", "0", "2", "5">>, <<"0", "6">>, <<"0", "9">>, <<"0", "0">>, TRUE),
     PartitionRow("events", <<"2", "0", "2", "5">>, <<"0", "6">>, <<"0", "9">>, <<"0", "1">>, TRUE),
     PartitionRow("events", <<"2", "0", "2", "5">>, <<"6">>, <<"1", "0">>, <<"0", "0">>, TRUE),
     PartitionRow("events", <<"2", "0", "2", "5">>, <<"0", "6">>, <<"1", "0">>, <<"0", "1">>, FALSE),
     PartitionRow("orders", <<"2", "0", "2", "5">>, <<"6">>, <<"9">>, <<"0", "0">>, TRUE),
     PartitionRow("events", <<"2", "0", "2", "5">>, <<"1", "1">>, <<"2">>, <<"0", "0">>, TRUE)}

RequestDates == {ZeroTime, Date(2025, 6, 9), Date(2025, 6, 10)}
RequestThresholds == {0, 64}
RequestRetentionDays == {3, 30}
RequestRetainLast == {5, 20}

\* Rows the tasks table may hold before the requests arrive: a running, a
\* successful and a failed one (the planner's own rows are the queued ones).
StoredRows ==
    {r \in TerminalRows : r.table = "events"}
        \cup {ClaimedRow(NewEntry("events", "remove_orphan_files",
                                  OrphanInput(minRetentionDays), 0), 0)}

InitPlanner ==
    /\ partitions \in {parts \in SUBSET PartitionUniverse : Cardinality(parts) <= MaxPartitions}
    /\ tasks \in {<<>>} \cup {<<r>> : r \in StoredRows}
    /\ nextId = Len(tasks) + 1
    /\ now = 0
    /\ calls = [p \in Callers |-> IdleCall]
    /\ claim = [c \in Claimers |-> IdleClaim]
    /\ worker = IdleWorker
    /\ admin = NoAdmin
    /\ refresh = NoRefresh
    /\ executor = NoExecutor

NextPlanner ==
    \/ \E p \in Callers, t \in Tables, rd \in RequestRetentionDays, rl \in RequestRetainLast :
          EnqueueExpireSnapshots(p, t, rd, rl)
    \/ \E p \in Callers, t \in Tables, rd \in RequestRetentionDays :
          EnqueueRemoveOrphanFiles(p, t, rd)
    \/ \E p \in Callers, t \in Tables, mb \in RequestThresholds, from \in RequestDates,
          to \in RequestDates :
          EnqueueOptimize(p, t, mb, from, to)
    \/ \E p \in Callers : EnqueueOptimizeLoop(p, TRUE)

SpecPlanner == InitPlanner /\ [][NextPlanner]_vars

(***************************************************************************)
(* Worker module: semaphore, dispatcher and task handlers                  *)
(***************************************************************************)
NoError == "nil"
NoResult == "nil"

\* Faulty variant: a semaphore that always grants a permit.
AlwaysFree(w) == TRUE

\* sem.TryAcquire(1) succeeds iff the permits held stay within the limit.
PermitFree(w) == w.count + 1 <= w.limit

\* Faulty variant: a release that gives no permit back.
KeepPermit(w) == w

\* sem.Release(1)
Release(w) == [w EXCEPT !.count = @ - 1]

\* Faulty variant: a worker count that is taken as it is.
AnyCount(newCount) == newCount

\* SetWorkerCount: if newCount < 1 { newCount = 1 }
WorkerCount(newCount) == IF newCount < 1 THEN 1 ELSE newCount

\* The Task copy a handler works on and what it has done so far:
\* st is "started", "executed" (the kind handler has returned) or "returned"
\* (the goroutine is gone, only the count of its CompleteTask calls is kept).
NewHandler(row) ==
    [kind |-> row.kind, table |-> row.table, st |-> "started", engine |-> "none",
     refresh |-> "none", result |-> NoResult, err |-> NoError, completeCalls |-> 0]

InFlight(w) == {id \in DOMAIN w.log : w.log[id].st # "returned"}

\* Faulty variant: a switch that lets an unknown kind pass.
KindHandlerLenient(kind, engineOk, refreshOk) ==
    [engine |-> IF engineOk THEN "ok" ELSE "failed",
     refresh |-> IF kind = "expire_snapshots" /\ engineOk
                   THEN (IF refreshOk THEN "ok" ELSE "failed") ELSE "none",
     result |-> "res", err |-> NoError]

\* Faulty variant: a kind handler that reports a failed refresh as its error.
KindHandlerStrict(kind, engineOk, refreshOk) ==
    IF kind \in {"expire_snapshots", "remove_orphan_files", "optimize"}
      THEN [engine |-> IF engineOk THEN "ok" ELSE "failed",
            refresh |-> IF kind = "expire_snapshots" /\ engineOk
                          THEN (IF refreshOk THEN "ok" ELSE "failed") ELSE "none",
            result |-> IF engineOk /\ (refreshOk \/ kind # "expire_snapshots")
                         THEN "res" ELSE NoResult,
            err |-> IF ~engineOk THEN "engine error"
                    ELSE IF kind = "expire_snapshots" /\ ~refreshOk THEN "refresh error"
                    ELSE NoError]
      ELSE [engine |-> "none", refresh |-> "none", result |-> NoResult,
            err |-> "unknown task kind"]

\* The switch of processTask with processExpireSnapshots,
\* processRemoveOrphanFiles and processOptimize: which calls are made and the
\* result and error handed to CompleteTask.
KindHandler(kind, engineOk, refreshOk) ==
    IF kind \in {"expire_snapshots", "remove_orphan_files", "optimize"}
      THEN [engine |-> IF engineOk THEN "ok" ELSE "failed",
            refresh |-> IF kind = "expire_snapshots" /\ engineOk
                          THEN (IF refreshOk THEN "ok" ELSE "failed") ELSE "none",
            result |-> IF engineOk THEN "res" ELSE NoResult,
            err |-> IF engineOk THEN NoError ELSE "engine error"]
      ELSE [engine |-> "none", refresh |-> "none", result |-> NoResult,
            err |-> "unknown task kind"]

\* Faulty variant: a dispatcher that handles one task at a time.
TickAcquireSerial ==
    /\ worker.disp = "wait"
    /\ InFlight(worker) = {}
    /\ IF PermitFree(worker)
         THEN worker' = [worker EXCEPT !.count = @ + 1, !.disp = "claim", !.tick = "none"]
         ELSE worker' = [worker EXCEPT !.tick = "skipped"]
    /\ UNCHANGED <<tasks, nextId, now, partitions, calls, claim, admin, refresh, executor>>

\* The ticker fires: tryProcessTask up to TryAcquire.  Without a free permit
\* the tick is over.  tick keeps how the last tick ended that started no
\* handler: "skipped" (no permit), "nil" (no task) or "error" (claim error).
TickAcquire ==
    /\ worker.disp = "wait"
    /\ IF PermitFree(worker)
         THEN worker' = [worker EXCEPT !.count = @ + 1, !.disp = "claim", !.tick = "none"]
         ELSE worker' = [worker EXCEPT !.tick = "skipped"]
    /\ UNCHANGED <<tasks, nextId, now, partitions, calls, claim, admin, refresh, executor>>

\* Faulty variant: a dispatcher that gives the permit back only when
\* ClaimTask found no task, not when it returned an error.
DispatchClaimLeak(fault) ==
    /\ worker.disp = "claim"
    /\ IF fault = "select" \/ worker.cancelled \/ Candidates(tasks) = {}
         THEN /\ worker' = [Release(worker) EXCEPT !.disp = "wait", !.tick = "nil"]
              /\ tasks' = tasks
         ELSE IF fault = "update"
         THEN /\ worker' = [worker EXCEPT !.disp = "wait", !.tick = "error"]
              /\ tasks' = tasks
         ELSE \E id \in Candidates(tasks) :
                 /\ tasks' = [tasks EXCEPT ![id] = ClaimedRow(tasks[id], now)]
                 /\ worker' = [worker EXCEPT
                                  !.disp = "wait",
                                  !.log = InsertRow(worker.log, id, NewHandler(tasks[id]))]
    /\ UNCHANGED <<nextId, now, partitions, calls, claim, admin, refresh, executor>>

\* tryProcessTask after TryAcquire: ClaimTask, then either the release of the
\* permit or the start of the handler.  The module is the only claimant, so
\* its SELECT and UPDATE are taken as one step; fault says which of the two
\* statements the database fails ("none", "select", "update").  A cancelled
\* context fails the SELECT.
DispatchClaim(fault) ==
    /\ worker.disp = "claim"
    /\ IF fault = "select" \/ worker.cancelled \/ Candidates(tasks) = {}
         THEN /\ worker' = [Release(worker) EXCEPT !.disp = "wait", !.tick = "nil"]
              /\ tasks' = tasks
         ELSE IF fault = "update"
         THEN /\ worker' = [Release(worker) EXCEPT !.disp = "wait", !.tick = "error"]
              /\ tasks' = tasks
         ELSE \E id \in Candidates(tasks) :
                 /\ tasks' = [tasks EXCEPT ![id] = ClaimedRow(tasks[id], now)]
                 /\ worker' = [worker EXCEPT
                                  !.disp = "wait",
                                  !.log = InsertRow(worker.log, id, NewHandler(tasks[id]))]
    /\ UNCHANGED <<nextId, now, partitions, calls, claim, admin, refresh, executor>>

\* processTask up to CompleteTask: the kind handler runs.
ExecuteTask(id, engineOk, refreshOk) ==
    /\ id \in DOMAIN worker.log
    /\ worker.log[id].st = "started"
    /\ LET out == KindHandler(worker.log[id].kind, engineOk, refreshOk) IN
       worker' = [worker EXCEPT !.log[id].st = "executed",
                                !.log[id].engine = out.engine,
                                !.log[id].refresh = out.refresh,
                                !.log[id].result = out.result,
                                !.log[id].err = out.err]
    /\ UNCHANGED <<tasks, nextId, now, partitions, calls, claim, admin, refresh, executor>>

\* Faulty variant: a handler that puts its task back into the queue when
\* CompleteTask failed.
FinishTaskRequeue(id, dbOk) ==
    /\ id \in DOMAIN worker.log
    /\ worker.log[id].st = "executed"
    /\ LET done == dbOk /\ ~worker.cancelled IN
       /\ tasks' = IF done
                     THEN CompleteTask(tasks, id, worker.log[id].err # NoError, now)
                     ELSE [i \in DOMAIN tasks |->
                              IF i = id THEN [tasks[i] EXCEPT !.status = "queued",
                                                              !.picked_up_at = NULL]
                              ELSE tasks[i]]
       /\ worker' = [Release(worker) EXCEPT
                        !.log[id] = [NewHandler(worker.log[id]) EXCEPT
                                        !.st = "returned",
                                        !.completeCalls = worker.log[id].completeCalls + 1]]
    /\ UNCHANGED <<nextId, now, partitions, calls, claim, admin, refresh, executor>>

\* Faulty variant: a handler that calls CompleteTask again after a failure.
FinishTaskRetry(id, dbOk) ==
    /\ id \in DOMAIN worker.log
    /\ worker.log[id].st = "executed"
    /\ LET done == dbOk /\ ~worker.cancelled IN
       /\ tasks' = IF done
                     THEN CompleteTask(tasks, id, worker.log[id].err # NoError, now)
                     ELSE tasks
       /\ worker' = IF done \/ worker.log[id].completeCalls >= 1
                       THEN [Release(worker) EXCEPT
                                !.log[id] = [NewHandler(worker.log[id]) EXCEPT
                                                !.st = "returned",
                                                !.completeCalls = worker.log[id].completeCalls + 1]]
                       ELSE [worker EXCEPT !.log[id].completeCalls = @ + 1]
    /\ UNCHANGED <<nextId, now, partitions, calls, claim, admin, refresh, executor>>

\* processTask from CompleteTask on, and the deferred release of the permit.
\* The UPDATE fails when the database does or when the context is cancelled;
\* the failure is logged and processTask returns nil.
FinishTask(id, dbOk) ==
    /\ id \in DOMAIN worker.log
    /\ worker.log[id].st = "executed"
    /\ LET done == dbOk /\ ~worker.cancelled IN
       /\ tasks' = IF done
                     THEN CompleteTask(tasks, id, worker.log[id].err # NoError, now)
                     ELSE tasks
       /\ worker' = [Release(worker) EXCEPT
                        !.log[id] = [NewHandler(worker.log[id]) EXCEPT
                                        !.st = "returned",
                                        !.completeCalls = worker.log[id].completeCalls + 1]]
    /\ UNCHANGED <<nextId, now, partitions, calls, claim, admin, refresh, executor>>

\* Faulty variant: a SetWorkerCount that puts a new semaphore in place.
SetWorkerCountFresh(newCount) ==
    /\ worker' = [worker EXCEPT !.limit = WorkerCount(newCount), !.asked = newCount,
                                !.count = 0]
    /\ UNCHANGED <<tasks, nextId, now, partitions, calls, claim, admin, refresh, executor>>

\* ModuleTasks.SetWorkerCount on the running module
SetWorkerCount(newCount) ==
    /\ worker' = [worker EXCEPT !.limit = WorkerCount(newCount), !.asked = newCount]
    /\ UNCHANGED <<tasks, nextId, now, partitions, calls, claim, admin, refresh, executor>>

\* Faulty variant: a handler that stores and applies the value before it
\* validates it.
SetTaskConcurrencyUnchecked(value, dbOk) ==
    /\ IF ~dbOk
         THEN worker' = [worker EXCEPT !.put = "error", !.putValue = value]
         ELSE worker' = [worker EXCEPT !.put = IF value < 1 THEN "error" ELSE "ok",
                                       !.putValue = value, !.setting = value,
                                       !.handlerLimit = WorkerCount(value)]
    /\ UNCHANGED <<tasks, nextId, now, partitions, calls, claim, admin, refresh, executor>>

\* HandlerSettings.SetTaskConcurrency.  The handler holds the module that
\* NewHandlerSettings obtained from ProvideModuleTasks, which builds a module
\* with a semaphore of its own at every call.
SetTaskConcurrency(value, dbOk) ==
    /\ IF value < 1 \/ ~dbOk
         THEN worker' = [worker EXCEPT !.put = "error", !.putValue = value]
         ELSE worker' = [worker EXCEPT !.put = "ok", !.putValue = value, !.setting = value,
                                       !.handlerLimit = WorkerCount(value)]
    /\ UNCHANGED <<tasks, nextId, now, partitions, calls, claim, admin, refresh, executor>>

\* The context passed to Run is cancelled.
Cancel ==
    /\ ~worker.cancelled
    /\ worker' = [worker EXCEPT !.cancelled = TRUE]
    /\ UNCHANGED <<tasks, nextId, now, partitions, calls, claim, admin, refresh, executor>>

\* case <-ctx.Done(): the scheduling loop returns.
DispatcherExit ==
    /\ worker.disp = "wait"
    /\ worker.cancelled
    /\ worker' = [worker EXCEPT !.disp = "exited"]
    /\ UNCHANGED <<tasks, nextId, now, partitions, calls, claim, admin, refresh, executor>>

\* Faulty variant: a Run that does not wait for the handlers.
RunReturnsEarly ==
    /\ worker.returned = "running"
    /\ worker.disp = "exited"
    /\ worker' = [worker EXCEPT !.returned = "nil"]
    /\ UNCHANGED <<tasks, nextId, now, partitions, calls, claim, admin, refresh, executor>>

\* cfn.Wait(): Run returns once the loop and every handler have returned.
RunReturns ==
    /\ worker.returned = "running"
    /\ worker.disp = "exited"
    /\ InFlight(worker) = {}
    /\ worker' = [worker EXCEPT !.returned = "nil"]
    /\ UNCHANGED <<tasks, nextId, now, partitions, calls, claim, admin, refresh, executor>>

\* Tasks queued for the module: rows of two tables and of every kind the
\* worker knows, and one of a kind it does not know.
WorkerRows ==
    <<NewEntry("events", "expire_snapshots", ExpireInput(minRetentionDays, minRetainLast), 0),
     NewEntry("events", "compact", OrphanInput(minRetentionDays), 0),
     NewEntry("orders", "remove_orphan_files", OrphanInput(minRetentionDays), 0),
     NewEntry("orders", "optimize", OptimizeInput(defaultFileSizeThresholdMb, Date(2025, 6, 9)), 0)>>

\* The queues the module starts with.  All rows carry the same started_at, so
\* the order of their ids makes no difference and one order is taken.
WorkerQueues ==
    UNION {{[i \in 1..n |-> WorkerRows[f[i]]] :
               f \in {g \in [1..n -> DOMAIN WorkerRows] :
                          \A i, j \in 1..n : i < j => g[i] <= g[j]}} :
           n \in 0..MaxWorkerTasks}

InitWorker ==
    /\ tasks \in WorkerQueues
    /\ nextId = Len(tasks) + 1
    /\ now = 0
    /\ partitions = {}
    /\ calls = [p \in Callers |-> IdleCall]
    /\ claim = [c \in Claimers |-> IdleClaim]
    /\ worker = IdleWorker
    /\ admin = NoAdmin
    /\ refresh = NoRefresh
    /\ executor = NoExecutor

NextWorker ==
    \/ TickAcquire
    \/ \E fault \in {"none", "select", "update"} : DispatchClaim(fault)
    \/ \E id \in 1..MaxWorkerTasks, engineOk \in BOOLEAN, refreshOk \in BOOLEAN :
          ExecuteTask(id, engineOk, refreshOk)
    \/ \E id \in 1..MaxWorkerTasks, dbOk \in BOOLEAN : FinishTask(id, dbOk)
    \/ \E n \in {-5} \cup 0..MaxWorkers : SetWorkerCount(n)
    \/ Cancel
    \/ DispatcherExit
    \/ RunReturns

SpecWorker == InitWorker /\ [][NextWorker]_vars

\* The running module and the settings handler.
NextSettings ==
    \/ TickAcquire
    \/ \E fault \in {"none", "select", "update"} : DispatchClaim(fault)
    \/ \E id \in 1..MaxWorkerTasks, engineOk \in BOOLEAN, refreshOk \in BOOLEAN :
          ExecuteTask(id, engineOk, refreshOk)
    \/ \E id \in 1..MaxWorkerTasks, dbOk \in BOOLEAN : FinishTask(id, dbOk)
    \/ \E v \in -1..MaxWorkers + 1, dbOk \in BOOLEAN : SetTaskConcurrency(v, dbOk)

SpecSettings == InitWorker /\ [][NextSettings]_vars

(***************************************************************************)
(* Operational calls: FlushTasks and TaskCounts with what they return      *)
(***************************************************************************)
\* SELECT status, COUNT(*) FROM tasks WHERE status IN ('queued','running')
\* GROUP BY status, folded into the two return values.
TaskCounts(tbl) ==
    [running |-> Cardinality({i \in DOMAIN tbl : tbl[i].status = "running"}),
     queued |-> Cardinality({i \in DOMAIN tbl : tbl[i].status = "queued"})]

\* Faulty variant: a flush that spares the running rows.
FlushTasksKeepRunning(dbOk) ==
    /\ LET kept == {i \in DOMAIN tasks : tasks[i].status = "running"} IN
       IF dbOk
         THEN /\ tasks' = [i \in kept |-> tasks[i]]
              /\ admin' = [NoAdmin EXCEPT !.op = "flush",
                                          !.deleted = Cardinality(DOMAIN tasks \ kept),
                                          !.flushedAt = nextId]
         ELSE /\ tasks' = tasks
              /\ admin' = [NoAdmin EXCEPT !.op = "flush", !.err = TRUE,
                                          !.flushedAt = admin.flushedAt]
    /\ UNCHANGED <<nextId, now, partitions, calls, claim, worker, refresh, executor>>

\* A call of FlushTasks: DELETE FROM tasks and RowsAffected, or the error of
\* the database.
FlushTasksCall(dbOk) ==
    /\ IF dbOk
         THEN /\ tasks' = <<>>
              /\ admin' = [NoAdmin EXCEPT !.op = "flush",
                                          !.deleted = Cardinality(DOMAIN tasks),
                                          !.flushedAt = nextId]
         ELSE /\ tasks' = tasks
              /\ admin' = [NoAdmin EXCEPT !.op = "flush", !.err = TRUE,
                                          !.flushedAt = admin.flushedAt]
    /\ UNCHANGED <<nextId, now, partitions, calls, claim, worker, refresh, executor>>

\* A call of TaskCounts: the two counts, or zeros and the error of the
\* database.
TaskCountsCall(dbOk) ==
    /\ admin' = IF dbOk
                  THEN [NoAdmin EXCEPT !.op = "counts",
                                       !.running = TaskCounts(tasks).running,
                                       !.queued = TaskCounts(tasks).queued,
                                       !.flushedAt = admin.flushedAt]
                  ELSE [NoAdmin EXCEPT !.op = "counts", !.err = TRUE,
                                       !.flushedAt = admin.flushedAt]
    /\ UNCHANGED <<tasks, nextId, now, partitions, calls, claim, worker, refresh, executor>>

NextAdmin ==
    \/ \E t \in Tables : Enqueue(t, "remove_orphan_files", OrphanInput(minRetentionDays), 0)
    \/ \E c \in Claimers : ClaimSelect(c, TRUE)
    \/ \E c \in Claimers : ClaimUpdate(c, TRUE)
    \/ \E c \in Claimers : NoTaskClaimed(c)
    \/ \E c \in Claimers, failed \in BOOLEAN : ProcessTask(c, failed)
    \/ \E dbOk \in BOOLEAN : FlushTasksCall(dbOk)
    \/ \E dbOk \in BOOLEAN : TaskCountsCall(dbOk)

SpecAdmin == Init /\ [][NextAdmin]_vars

(***************************************************************************)
(* ClaimTask over stored queues with busy and idle tables                  *)
(***************************************************************************)
MaxClaimRows == 3

ClaimStamps == {0, 1}

\* Rows as EnqueueTask and the claiming UPDATE leave them.
ClaimRows ==
    {IF st = "queued"
       THEN NewEntry(t, "remove_orphan_files", OrphanInput(minRetentionDays), s)
       ELSE ClaimedRow(NewEntry(t, "remove_orphan_files", OrphanInput(minRetentionDays), s), s) :
         t \in Tables, s \in ClaimStamps, st \in {"queued", "running"}}

\* Stored queues with at most one running row per table.
ClaimQueues ==
    UNION {{q \in [1..n -> ClaimRows] :
               \A i, j \in 1..n :
                  (q[i].status = "running" /\ q[j].status = "running"
                   /\ q[i].table = q[j].table) => i = j} : n \in 0..MaxClaimRows}

InitClaim ==
    /\ tasks \in ClaimQueues
    /\ nextId = Len(tasks) + 1
    /\ now = 1
    /\ partitions = {}
    /\ calls = [p \in Callers |-> IdleCall]
    /\ claim = [c \in Claimers |-> IdleClaim]
    /\ worker = IdleWorker
    /\ admin = NoAdmin
    /\ refresh = NoRefresh
    /\ executor = NoExecutor

NextClaim ==
    \/ \E c \in Claimers : ClaimSelect(c, TRUE)
    \/ \E c \in Claimers : ClaimUpdate(c, TRUE)
    \/ \E c \in Claimers : NoTaskClaimed(c)
    \/ \E c \in Claimers, failed \in BOOLEAN : ProcessTask(c, failed)

SpecClaim == InitClaim /\ [][NextClaim]_vars

(***************************************************************************)
(* ListTasks after EnqueueTask                                             *)
(***************************************************************************)
MaxListRows == 20

defaultLimit == 20

Min(a, b) == IF a < b THEN a ELSE b

\* if limit <= 0 { limit = 20 }
EffectiveLimit(limit) == IF limit <= 0 THEN defaultLimit ELSE limit

\* if offset < 0 { offset = 0 }
EffectiveOffset(offset) == IF offset < 0 THEN 0 ELSE offset

\* The WHERE conditions of both queries: an empty table name and empty
\* lists do not filter.
Matching(tbl, args) ==
    {i \in DOMAIN tbl :
        /\ args.table = "" \/ tbl[i].table = args.table
        /\ args.kinds = {} \/ tbl[i].kind \in args.kinds
        /\ args.statuses = {} \/ tbl[i].status \in args.statuses}

\* ORDER BY started_at DESC; rows with equal started_at come in ascending
\* or in descending id order (tie), SQL leaving their order open.
Precedes(tbl, tie, j, i) ==
    \/ tbl[j].started_at > tbl[i].started_at
    \/ tbl[j].started_at = tbl[i].started_at /\ (IF tie = "asc" THEN j < i ELSE j > i)

\* The ids of the page and the total, as ListTasks returns them.
ListTasks(tbl, args, tie) ==
    LET M == Matching(tbl, args)
        lim == EffectiveLimit(args.limit)
        off == EffectiveOffset(args.offset)
        n == Max(0, Min(lim, Cardinality(M) - off))
        Rank(i) == Cardinality({j \in M : Precedes(tbl, tie, j, i)}) + 1
    IN [items |-> [k \in 1..n |-> CHOOSE i \in M : Rank(i) = off + k],
        total |-> Cardinality(M)]

\* A caller's EnqueueTask; the stamp may be older than stored rows, other
\* callers having inserted theirs since it was read.
EnqueueForList(table, startedAt) ==
    /\ admin.op = "none"
    /\ EnqueueTask(table, "remove_orphan_files", OrphanInput(minRetentionDays), startedAt)
    /\ admin' = [NoAdmin EXCEPT !.op = "enqueue", !.id = nextId, !.args.table = table]
    /\ UNCHANGED <<now, partitions, calls, claim, worker, refresh, executor>>

\* The caller's ListTasks right after its EnqueueTask returned.
ListTasksCall(args, tie) ==
    /\ admin.op = "enqueue"
    /\ LET page == ListTasks(tasks, args, tie) IN
       admin' = [admin EXCEPT !.op = "list", !.args = args,
                              !.items = page.items, !.total = page.total]
    /\ UNCHANGED <<tasks, nextId, now, partitions, calls, claim, worker, refresh, executor>>

\* Stored tables: n rows of table events enqueued at time 1, the last of
\* them claimed or not, and optionally a finished row of table orders.
ListQueues ==
    UNION {{[i \in 1..(n + m) |->
               IF i <= n
                 THEN (IF i = n /\ run
                         THEN ClaimedRow(NewEntry("events", "optimize", "{}", 1), 1)
                         ELSE NewEntry("events", "optimize", "{}", 1))
                 ELSE CompletedRow(ClaimedRow(NewEntry("orders", "remove_orphan_files",
                                       OrphanInput(minRetentionDays), 0), 0), FALSE, 1)] :
              run \in BOOLEAN, m \in {k \in 0..1 : n + k <= MaxListRows}} : n \in 0..MaxListRows}

ListArgs ==
    [table : {""} \cup Tables, kinds : {{}, {"optimize"}}, statuses : {{}, {"queued", "running"}},
     limit : {-1, 0, 1, 2}, offset : {-1, 0, 1}]

InitList ==
    /\ tasks \in ListQueues
    /\ nextId = Len(tasks) + 1
    /\ now = 1
    /\ partitions = {}
    /\ calls = [p \in Callers |-> IdleCall]
    /\ claim = [c \in Claimers |-> IdleClaim]
    /\ worker = IdleWorker
    /\ admin = NoAdmin
    /\ refresh = NoRefresh
    /\ executor = NoExecutor

NextList ==
    \/ \E t \in Tables, s \in 0..1 : EnqueueForList(t, s)
    \/ \E args \in ListArgs, tie \in {"asc", "desc"} : ListTasksCall(args, tie)

SpecList == InitList /\ [][NextList]_vars

(***************************************************************************)
(* The worker module while the queue is flushed and refilled               *)
(***************************************************************************)
\* EnqueueTask while the worker module runs.
EnqueueForWorker(table) ==
    /\ nextId <= MaxWorkerTasks
    /\ EnqueueTask(table, "remove_orphan_files", OrphanInput(minRetentionDays), 0)
    /\ UNCHANGED <<now, partitions, calls, claim, worker, admin, refresh, executor>>

NextFlush ==
    \/ TickAcquire
    \/ \E fault \in {"none", "select", "update"} : DispatchClaim(fault)
    \/ \E id \in 1..MaxWorkerTasks, engineOk \in BOOLEAN, refreshOk \in BOOLEAN :
          ExecuteTask(id, engineOk, refreshOk)
    \/ \E id \in 1..MaxWorkerTasks, dbOk \in BOOLEAN : FinishTask(id, dbOk)
    \/ \E dbOk \in BOOLEAN : FlushTasksCall(dbOk)
    \/ \E t \in Tables : EnqueueForWorker(t)

SpecFlush == InitWorker /\ [][NextFlush]_vars

(***************************************************************************)
(* Properties of the task queue                                            *)
(***************************************************************************)
Running(t) == {i \in DOMAIN tasks : tasks[i].status = "running" /\ tasks[i].table = t}
Terminal(row) == row.status \in {"success", "error"}

\* C1: for every table, at most one task row has status running, in every
\* reachable state, whatever the started_at values of the queued rows.
MutualExclusion == \A t \in Tables : Cardinality(Running(t)) <= 1

\* C2: when two claimers race for the only queued task, then once both calls
\* have returned exactly one of them has returned that task, with status
\* running and picked_up_at set, the other has returned nil, and the row of
\* that id has status running.
RaceTask == CHOOSE i \in DOMAIN tasks : tasks[i].status \in {"queued", "running"}
Winners == {c \in Claimers : claim[c].ret.id # 0}
ExactlyOneWinner ==
    (\A c \in Claimers : claim[c].pc = "returned") =>
        /\ Cardinality(Winners) = 1
        /\ \A c \in Winners :
              /\ claim[c].ret.id = RaceTask
              /\ claim[c].ret.status = "running"
              /\ claim[c].ret.picked_up_at # NULL
              /\ tasks[RaceTask].picked_up_at = claim[c].ret.picked_up_at
        /\ \A c \in Claimers \ Winners : claim[c].ret = NoTask
        /\ tasks[RaceTask].status = "running"
        /\ Cardinality({i \in DOMAIN tasks : tasks[i].status = "running"}) = 1

\* Witness of C2: one claimer holds the task, the other has lost the
\* compare-and-set on the same candidate and is about to select again.
RaceLost ==
    \E c, d \in Claimers :
        /\ c # d
        /\ claim[c].pc = "returned" /\ claim[c].ret.id # 0
        /\ claim[d].pc = "idle" /\ claim[d].i = 1

\* C3: a row with status success or error is never changed again (it can only
\* be deleted, by FlushTasks, which deletes every row); a row never goes back
\* from running to queued, and a queued row becomes terminal only through
\* running.
StatusOrder ==
    [][\A id \in DOMAIN tasks :
          /\ id \notin DOMAIN tasks' => tasks' = <<>>
          /\ id \in DOMAIN tasks' =>
                /\ Terminal(tasks[id]) => tasks'[id] = tasks[id]
                /\ tasks[id].status = "running" => tasks'[id].status # "queued"
                /\ tasks[id].status = "queued" => ~Terminal(tasks'[id])]_vars

\* Witness of C3: a claimer is about to run its UPDATE on a candidate that
\* another worker has meanwhile claimed and completed.
StaleCandidateTerminal ==
    \E c \in Claimers :
        /\ claim[c].pc = "update"
        /\ claim[c].cand \in DOMAIN tasks
        /\ Terminal(tasks[claim[c].cand])

\* C4: when two rows of one table are queued, the one with the later
\* started_at is not claimed while the earlier one is queued or running.
StartedAtOrder ==
    [][\A a, b \in DOMAIN tasks :
          (/\ tasks[a].table = tasks[b].table
           /\ tasks[a].started_at < tasks[b].started_at
           /\ tasks[a].status \in {"queued", "running"}
           /\ tasks[b].status = "queued"
           /\ b \in DOMAIN tasks')
          => tasks'[b].status = "queued"]_vars

\* C5: every row is well formed: queued rows have neither picked_up_at nor
\* finished_at, running rows have picked_up_at only, terminal rows have both
\* with finished_at >= picked_up_at, and error_message is set exactly on
\* rows with status error.
WellFormed ==
    \A id \in DOMAIN tasks :
        LET r == tasks[id] IN
        /\ r.status \in {"queued", "running", "success", "error"}
        /\ r.status = "queued" => r.picked_up_at = NULL /\ r.finished_at = NULL
        /\ r.status = "running" => r.picked_up_at # NULL /\ r.finished_at = NULL
        /\ Terminal(r) => /\ r.picked_up_at # NULL
                          /\ r.finished_at # NULL
                          /\ r.finished_at >= r.picked_up_at
        /\ r.status = "error" <=> r.error_message # NoMessage

\* Witness of C5: a failed task finished at a later instant than it was
\* picked up, next to a running and a queued row.
AllStatusesSeen ==
    /\ \E id \in DOMAIN tasks :
          tasks[id].status = "error" /\ tasks[id].finished_at > tasks[id].picked_up_at
    /\ \E id \in DOMAIN tasks : tasks[id].status \in {"running", "success"}

(***************************************************************************)
(* Properties of the planner                                               *)
(***************************************************************************)
Range(seq) == {seq[i] : i \in DOMAIN seq}
Returned(p, op) == calls[p].pc = "done" /\ calls[p].op = op

\* Calendar order of dates: a is not later than b.
DateLeq(a, b) ==
    a.y < b.y \/ (a.y = b.y /\ (a.m < b.m \/ (a.m = b.m /\ a.d <= b.d)))

\* The calendar date a stored partition row stands for.
RowDate(row) == Date(Atoi(row.year), Atoi(row.month), Atoi(row.day))

\* The partition rows a request is about.
Qualifying(args) ==
    {r \in partitions :
        /\ r.table = args.table
        /\ r.needs_optimize
        /\ DateLeq(args.from, RowDate(r))
        /\ DateLeq(RowDate(r), args.to)}

ValidRange(args) ==
    args.from # ZeroTime /\ args.to # ZeroTime /\ DateLeq(args.from, args.to)

\* C6: a returned EnqueueOptimize call with a valid range has no error and
\* has created one optimize task per qualifying partition row (as many tasks
\* for a date as rows qualify with that date, and none else), each for the
\* request's table, with from = to = the row's date and the requested
\* threshold, 128 when the requested one is below 1; without qualifying rows
\* the id list is empty.
OneTaskPerPartition ==
    \A p \in Callers :
        (Returned(p, "optimize") /\ ValidRange(calls[p].args)) =>
            LET args == calls[p].args
                ids == calls[p].ids
                rows == Qualifying(args)
            IN /\ ~calls[p].err
               /\ Len(ids) = Cardinality(rows)
               /\ rows = {} => ids = <<>>
               /\ \A r \in rows :
                     Cardinality({i \in DOMAIN ids : tasks[ids[i]].input.from = RowDate(r)})
                         = Cardinality({q \in rows : RowDate(q) = RowDate(r)})
               /\ \A i \in DOMAIN ids :
                     /\ tasks[ids[i]].table = args.table
                     /\ tasks[ids[i]].kind = "optimize"
                     /\ tasks[ids[i]].status = "queued"
                     /\ tasks[ids[i]].input.to = tasks[ids[i]].input.from
                     /\ tasks[ids[i]].input.file_size_threshold_mb =
                            (IF args.fileSizeThresholdMb < 1 THEN 128
                             ELSE args.fileSizeThresholdMb)

\* Witness of C6: a call has returned the tasks of at least two qualifying
\* rows, one of them stored with an unpadded month, while another stored row
\* does not qualify.
FanOutSeen ==
    \E p \in Callers :
        /\ Returned(p, "optimize")
        /\ Len(calls[p].ids) >= 2
        /\ \E r \in Qualifying(calls[p].args) : Len(r.month) = 1
        /\ partitions \ Qualifying(calls[p].args) # {}

\* C7: the ids a call of EnqueueOptimize returns are strictly increasing in
\* the order of the list, and the dates of their tasks ascend in that order.
AscendingIds ==
    \A p \in Callers :
        calls[p].op = "optimize" =>
            \A i, j \in DOMAIN calls[p].ids :
                i < j =>
                    /\ calls[p].ids[i] < calls[p].ids[j]
                    /\ DateLeq(tasks[calls[p].ids[i]].input.from,
                               tasks[calls[p].ids[j]].input.from)

\* Witness of C7: a returned list with two tasks of different dates whose ids
\* are not consecutive, another request having enqueued in between.
AscendingSeen ==
    \E p \in Callers :
        /\ Returned(p, "optimize")
        /\ Len(calls[p].ids) = 2
        /\ calls[p].ids[2] > calls[p].ids[1] + 1
        /\ tasks[calls[p].ids[1]].input.from # tasks[calls[p].ids[2]].input.from

\* C8: a call of EnqueueOptimize with a zero from, a zero to, or from after to
\* returns an error and no ids, and leaves the tasks table as it is.
InvalidRangeRejected ==
    [][\A p \in Callers :
          (/\ calls[p].pc = "start"
           /\ calls'[p].op = "optimize"
           /\ ~ValidRange(calls'[p].args))
          => /\ calls'[p].pc = "done"
             /\ calls'[p].err
             /\ calls'[p].ids = <<>>
             /\ tasks' = tasks
             /\ nextId' = nextId]_vars

\* Witness of C8: a rejected request with a zero from whose to lies behind
\* stored rows that need optimization.
RejectedSeen ==
    \E p \in Callers :
        /\ Returned(p, "optimize")
        /\ calls[p].err
        /\ calls[p].args.from = ZeroTime
        /\ calls[p].args.to # ZeroTime
        /\ \E r \in partitions :
              /\ r.table = calls[p].args.table
              /\ r.needs_optimize
              /\ DateLeq(RowDate(r), calls[p].args.to)

\* C9: two EnqueueOptimize requests never share a task id, and no step of the
\* planner changes or removes a row that is already in the tasks table.
RepeatIsFresh ==
    [][/\ \A id \in DOMAIN tasks : id \in DOMAIN tasks' /\ tasks'[id] = tasks[id]
       /\ \A p, q \in Callers :
             (p # q /\ calls'[p].op = "optimize" /\ calls'[q].op = "optimize")
                 => Range(calls'[p].ids) \cap Range(calls'[q].ids) = {}]_vars

\* Witness of C9: an identical request was repeated after the first one had
\* returned, both created tasks, and a row that was not queued was there
\* before them.
RepeatSeen ==
    \E p, q \in Callers :
        /\ p # q
        /\ Returned(p, "optimize") /\ Returned(q, "optimize")
        /\ calls[p].args = calls[q].args
        /\ calls[p].ids # <<>> /\ calls[q].ids # <<>>
        /\ \A i \in Range(calls[p].ids), j \in Range(calls[q].ids) : i < j
        /\ 1 \in DOMAIN tasks /\ tasks[1].status # "queued"

\* C10: EnqueueExpireSnapshots adds exactly one row, whose input is
\* retention_days = max(requested, 7) and retain_last = max(requested, 10),
\* and EnqueueRemoveOrphanFiles adds exactly one row, whose input is
\* retention_days = max(requested, 7); the call returns the id of that row.
RetentionClamped ==
    [][\A p \in Callers :
          (calls[p].pc = "start" /\ calls'[p].op \in {"expire_snapshots", "remove_orphan_files"})
          => \E id \in DOMAIN tasks' :
                /\ DOMAIN tasks' = DOMAIN tasks \cup {id}
                /\ id \notin DOMAIN tasks
                /\ calls'[p].pc = "done" /\ ~calls'[p].err
                /\ calls'[p].ids = <<id>>
                /\ tasks'[id].table = calls'[p].args.table
                /\ tasks'[id].kind = calls'[p].op
                /\ tasks'[id].status = "queued"
                /\ tasks'[id].input =
                      IF calls'[p].op = "expire_snapshots"
                        THEN [retention_days |-> Max(calls'[p].args.retentionDays, 7),
                              retain_last |-> Max(calls'[p].args.retainLast, 10)]
                        ELSE [retention_days |-> Max(calls'[p].args.retentionDays, 7)]]_vars

\* Witness of C10: tasks of both kinds are stored, one from a request below
\* the minimum and one from a request above it.
ClampSeen ==
    \E p, q \in Callers :
        /\ Returned(p, "expire_snapshots")
        /\ calls[p].args.retentionDays < 7 /\ calls[p].args.retainLast > 10
        /\ tasks[calls[p].ids[1]].input = [retention_days |-> 7,
                                           retain_last |-> calls[p].args.retainLast]
        /\ Returned(q, "remove_orphan_files")
        /\ calls[q].args.retentionDays > 7
        /\ tasks[calls[q].ids[1]].input.retention_days = calls[q].args.retentionDays

(***************************************************************************)
(* Properties of the worker module                                         *)
(***************************************************************************)

\* The handlers of the module that hold a permit and have not returned.
Handlers(w) == Cardinality(InFlight(w))

\* A handler of task id starts in this step.
Starts(id) == id \in DOMAIN worker'.log /\ id \notin DOMAIN worker.log

SettingReachesWorker ==
    [][(worker'.put = "ok" /\ worker'.setting # worker.setting) =>
           worker'.limit = worker'.setting]_vars

\* C13: the limit is the count SetWorkerCount was last called with when that
\* count is at least 1, and 1 otherwise; it is never below 1.
LimitClamped ==
    /\ worker.limit >= 1
    /\ worker.limit = (IF worker.asked >= 1 THEN worker.asked ELSE 1)

\* SetWorkerCount(-5) was called while a handler was in flight and left the
\* limit at 1.
ClampedToOne ==
    /\ worker.asked = -5
    /\ worker.limit = 1
    /\ Handlers(worker) >= 1

\* C14: a handler calls CompleteTask once, in the step after its kind
\* handler returned, whatever the kind handler returned; the call touches
\* the row of that task only; when it fails the handler returns all the
\* same, without a second call, and neither the dispatcher nor Run notices.
CompleteOnce ==
    [][\A id \in DOMAIN worker'.log :
          /\ worker'.log[id].completeCalls =
                (IF worker'.log[id].st = "returned" THEN 1 ELSE 0)
          /\ (id \in DOMAIN worker.log
              /\ worker'.log[id].completeCalls # worker.log[id].completeCalls) =>
                /\ worker.log[id].st = "executed"
                /\ worker'.log[id].st = "returned"
                /\ \A other \in DOMAIN tasks \ {id} : tasks'[other] = tasks[other]
                /\ tasks'[id].status \in {"running", "success", "error"}
                /\ worker'.disp = worker.disp
                /\ worker'.returned = worker.returned]_vars

\* A handler has returned after a CompleteTask that failed (its row is still
\* running) and another one after a CompleteTask that stored an error.
CompletionFailedSeen ==
    \E id, other \in DOMAIN worker.log :
       /\ worker.log[id].st = "returned"
       /\ tasks[id].status = "running"
       /\ worker.log[other].st = "returned"
       /\ tasks[other].status = "error"

\* C15: an engine failure and an unknown kind give a nil result and the
\* error; a CompleteTask that then reaches the database leaves the row in
\* status error with the message set and no result; the dispatcher and Run
\* are not affected.
FailureCaptured ==
    [][\A id \in DOMAIN worker.log :
          /\ (worker.log[id].st = "started" /\ worker'.log[id].st = "executed") =>
                /\ worker'.log[id].kind \notin
                      {"expire_snapshots", "remove_orphan_files", "optimize"} =>
                         /\ worker'.log[id].engine = "none"
                         /\ worker'.log[id].result = NoResult
                         /\ worker'.log[id].err = "unknown task kind"
                /\ worker'.log[id].engine = "failed" =>
                         /\ worker'.log[id].result = NoResult
                         /\ worker'.log[id].err = "engine error"
          /\ (worker.log[id].st = "executed" /\ worker'.log[id].st = "returned"
              /\ worker.log[id].err # NoError) =>
                /\ tasks'[id].status \in {"running", "error"}
                /\ tasks'[id] # tasks[id] =>
                      /\ tasks'[id].status = "error"
                      /\ tasks'[id].error_message # NoMessage
                      /\ tasks'[id].result = "null"
                /\ worker'.disp = worker.disp
                /\ worker'.returned = worker.returned]_vars

\* A task of an unknown kind and a task whose engine call failed have ended
\* in status error, and the dispatcher is at its next claim.
FailuresSeen ==
    /\ \E id \in DOMAIN tasks :
          /\ tasks[id].kind = "compact"
          /\ tasks[id].status = "error"
          /\ id \in DOMAIN worker.log /\ worker.log[id].st = "returned"
    /\ worker.disp = "claim"
    /\ worker.returned = "running"

\* C16: an expire_snapshots handler whose engine call succeeded and whose
\* refresh failed hands CompleteTask the engine's result and no error, and a
\* CompleteTask that reaches the database leaves the row in status success.
RefreshFailureIgnored ==
    [][\A id \in DOMAIN worker.log :
          (/\ worker.log[id].st = "executed"
           /\ worker.log[id].kind = "expire_snapshots"
           /\ worker.log[id].engine = "ok"
           /\ worker.log[id].refresh = "failed") =>
               /\ worker.log[id].result = "res"
               /\ worker.log[id].err = NoError
               /\ worker'.log[id].st = "returned" =>
                     /\ tasks'[id].status \in {"running", "success"}
                     /\ tasks'[id] # tasks[id] =>
                           /\ tasks'[id].status = "success"
                           /\ tasks'[id].error_message = NoMessage
                           /\ tasks'[id].result = "res"]_vars

\* The refresh after a successful ExpireSnapshots has failed.
RefreshFailedSeen ==
    \E id \in DOMAIN worker.log :
       /\ worker.log[id].st = "executed"
       /\ worker.log[id].kind = "expire_snapshots"
       /\ worker.log[id].engine = "ok"
       /\ worker.log[id].refresh = "failed"

\* C17: a ClaimTask that returns no task or an error gives the permit back,
\* starts no handler, leaves every row and every handler as they were, and
\* puts the dispatcher back at the ticker; Run does not return.
EmptyClaimReleases ==
    [][(worker.disp = "claim" /\ worker'.disp # "claim"
        /\ DOMAIN worker'.log = DOMAIN worker.log) =>
           /\ worker'.tick \in {"nil", "error"}
           /\ worker'.count = worker.count - 1
           /\ worker'.disp = "wait"
           /\ worker'.log = worker.log
           /\ tasks' = tasks
           /\ worker'.returned = "running"]_vars

\* ClaimTask returned an error although a task could be claimed; the permit
\* is back and the dispatcher waits for the next tick.
ClaimErrorSeen ==
    /\ worker.tick = "error"
    /\ Candidates(tasks) # {}
    /\ worker.disp = "wait"
    /\ worker.count = Handlers(worker)
    /\ worker.returned = "running"

\* C18: once the context is cancelled no task is claimed and no handler is
\* started; once the loop has left it never ticks again; Run returns only
\* after a cancellation, when the loop has left and no handler is in flight,
\* and what it returns is nil.
CancelDrains ==
    [][/\ worker.cancelled =>
             /\ worker'.cancelled
             /\ DOMAIN worker'.log = DOMAIN worker.log
             /\ \A id \in DOMAIN tasks :
                   tasks[id].status = "queued" => tasks'[id].status = "queued"
       /\ worker.disp = "exited" =>
             /\ worker'.disp = "exited"
             /\ worker'.count <= worker.count
       /\ worker'.returned \in {"running", "nil"}
       /\ worker'.returned = "nil" =>
             /\ worker'.cancelled
             /\ worker'.disp = "exited"
             /\ InFlight(worker') = {}
             /\ worker'.count = 0]_vars

\* Run has returned after a handler that was in flight at the cancellation
\* came back (its CompleteTask was refused, so its row is still running)
\* while a task is still queued.
DrainedSeen ==
    /\ worker.returned = "nil"
    /\ \E id \in DOMAIN worker.log : tasks[id].status = "running"
    /\ \E id \in DOMAIN tasks : tasks[id].status = "queued"

\* C19: at the ticker a free permit is enough for the dispatcher to go on to
\* ClaimTask, and at ClaimTask a claimable task is enough for a handler to
\* start, however many handlers are in flight.
DispatchDoesNotWait ==
    /\ (worker.disp = "wait" /\ worker.count < worker.limit) =>
          ENABLED (TickAcquire /\ worker'.disp = "claim")
    /\ (worker.disp = "claim" /\ ~worker.cancelled /\ Candidates(tasks) # {}) =>
          ENABLED (DispatchClaim("none") /\ Handlers(worker') = Handlers(worker) + 1)

\* Two handlers, of tasks of different tables, are executing at once.
ParallelSeen ==
    \E id, other \in InFlight(worker) :
       /\ worker.log[id].table # worker.log[other].table
       /\ worker.log[id].st = "started"
       /\ worker.log[other].st = "started"
       /\ worker.limit >= 2


(***************************************************************************)
(* Properties of the operational calls                                     *)
(***************************************************************************)
\* C20: a FlushTasks that returns no error leaves no row, whatever the
\* statuses were, and returns the number of rows there were; a TaskCounts
\* that returns no error returns the numbers of running and of queued rows,
\* which are both 0 when a FlushTasks came before it and no task was
\* enqueued since.
FlushThenCountsZero ==
    [][/\ (admin' # admin /\ admin'.op = "flush" /\ ~admin'.err) =>
             /\ tasks' = <<>>
             /\ admin'.deleted = Cardinality(DOMAIN tasks)
       /\ (admin' # admin /\ admin'.op = "counts" /\ ~admin'.err) =>
             /\ admin'.running = Cardinality({i \in DOMAIN tasks : tasks[i].status = "running"})
             /\ admin'.queued = Cardinality({i \in DOMAIN tasks : tasks[i].status = "queued"})
             /\ admin.flushedAt = nextId =>
                   /\ admin'.running = 0
                   /\ admin'.queued = 0]_vars

\* TaskCounts has returned after a FlushTasks with no task enqueued since;
\* the flush deleted a running row, whose claimer still holds the task.
FlushCountsSeen ==
    /\ admin.op = "counts"
    /\ ~admin.err
    /\ admin.flushedAt = nextId
    /\ nextId = MaxTasks + 1
    /\ tasks = <<>>
    /\ \E c \in Claimers : claim[c].pc = "returned" /\ claim[c].ret.id # 0

(***************************************************************************)
(* Properties of a flush under running handlers                            *)
(***************************************************************************)
\* C21: a flush leaves the handlers as they are; a handler whose row was
\* deleted goes on to its CompleteTask and returns, and that CompleteTask
\* changes no row: the deleted row stays deleted and every other row keeps
\* its contents.
CompleteAfterFlushNoOp ==
    [][/\ (admin' # admin /\ admin'.op = "flush") => worker' = worker
       /\ \A id \in DOMAIN worker.log :
             (/\ worker.log[id].st = "executed"
              /\ worker'.log[id].st = "returned"
              /\ id \notin DOMAIN tasks) =>
                  /\ tasks' = tasks
                  /\ worker'.log[id].completeCalls = 1]_vars

\* A handler has returned from its CompleteTask after its row was flushed,
\* while a row enqueued after the flush is stored.
FlushedHandlerReturned ==
    \E id \in DOMAIN worker.log :
       /\ worker.log[id].st = "returned"
       /\ id \notin DOMAIN tasks
       /\ tasks # <<>>
       /\ admin.op = "flush" /\ ~admin.err

(***************************************************************************)
(* Properties of the candidate selection                                   *)
(***************************************************************************)
\* The queued rows whose table has no running row.
Unblocked == {i \in DOMAIN tasks :
                 /\ tasks[i].status = "queued"
                 /\ \A j \in DOMAIN tasks :
                       tasks[j].status = "running" => tasks[j].table # tasks[i].table}

\* C30: the candidate that the SELECT of ClaimTask delivers is a queued row
\* whose table has no running row, with the least started_at among such
\* rows, and ClaimTask returns nil at once when there is no such row; the
\* row a ClaimTask claims and returns is its candidate.  A queued
\* row of an idle table is therefore delivered although an older queued row
\* of a busy table is waiting.
OldestUnblockedClaimed ==
    [][\A c \in Claimers :
          /\ (claim[c].pc = "idle" /\ claim'[c].pc = "update") =>
                /\ claim'[c].cand \in Unblocked
                /\ \A j \in Unblocked :
                      tasks[claim'[c].cand].started_at <= tasks[j].started_at
          /\ (claim[c].pc = "idle" /\ claim'[c].pc = "returned") =>
                /\ claim'[c].ret = NoTask
                /\ Unblocked = {}
          /\ (claim[c].pc = "update" /\ claim'[c].pc = "returned"
              /\ claim'[c].ret # NoTask) =>
                /\ claim'[c].ret.id = claim[c].cand
                /\ tasks[claim[c].cand].status = "queued"
                /\ tasks'[claim[c].cand].status = "running"]_vars

\* A claimer has claimed a row of an idle table while an older queued row of
\* a busy table is still waiting.
NoHeadOfLineBlocking ==
    \E c \in Claimers, a, r \in DOMAIN tasks :
       /\ claim[c].pc = "returned"
       /\ claim[c].ret.id \in DOMAIN tasks
       /\ tasks[claim[c].ret.id].status = "running"
       /\ tasks[a].status = "queued"
       /\ tasks[r].status = "running"
       /\ r # claim[c].ret.id
       /\ tasks[a].table = tasks[r].table
       /\ tasks[a].table # tasks[claim[c].ret.id].table
       /\ tasks[a].started_at < tasks[claim[c].ret.id].started_at

(***************************************************************************)
(* Properties of ListTasks                                                 *)
(***************************************************************************)
\* C22: the ListTasks that follows an EnqueueTask, filtered by the table of
\* the new task only, with the default limit and offset 0, has the returned
\* id among its items.
EnqueuedIdListed ==
    [][(/\ admin.op = "enqueue"
        /\ admin'.op = "list"
        /\ admin'.args = [NoListArgs EXCEPT !.table = admin.args.table]) =>
           \E k \in DOMAIN admin'.items : admin'.items[k] = admin.id]_vars

\* The page of every ListTasks: matching rows only, none twice, in
\* descending started_at order, at most limit of them (20 for limit <= 0),
\* and a total that counts every matching row whatever limit and offset.
ListPageOrdered ==
    [][admin'.op = "list" =>
          LET items == admin'.items
              M == {i \in DOMAIN tasks :
                       /\ admin'.args.table = "" \/ tasks[i].table = admin'.args.table
                       /\ admin'.args.kinds = {} \/ tasks[i].kind \in admin'.args.kinds
                       /\ admin'.args.statuses = {} \/ tasks[i].status \in admin'.args.statuses}
              lim == IF admin'.args.limit <= 0 THEN 20 ELSE admin'.args.limit
              off == IF admin'.args.offset < 0 THEN 0 ELSE admin'.args.offset
          IN /\ \A k \in DOMAIN items : items[k] \in M
             /\ \A k, l \in DOMAIN items : k < l =>
                   /\ items[k] # items[l]
                   /\ tasks[items[k]].started_at >= tasks[items[l]].started_at
             /\ Len(items) <= lim
             /\ Len(items) = Max(0, Min(lim, Cardinality(M) - off))
             /\ admin'.total = Cardinality(M)]_vars

(***************************************************************************)
(* Properties of the settings handler                                      *)
(***************************************************************************)
\* C27: a PUT of a task concurrency below 1 is answered with an error and
\* leaves the stored setting, the semaphore of the running module and the
\* semaphore of the handler's module as they were.
InvalidConcurrencyRejected ==
    [][((worker'.put # worker.put \/ worker'.putValue # worker.putValue)
        /\ worker'.putValue < 1) =>
           /\ worker'.put = "error"
           /\ worker'.setting = worker.setting
           /\ worker'.limit = worker.limit
           /\ worker'.handlerLimit = worker.handlerLimit
           /\ worker'.count = worker.count]_vars

\* A PUT of 0 was refused after an earlier PUT had stored 2, while a handler
\* is in flight.
InvalidPutSeen ==
    /\ worker.put = "error"
    /\ worker.putValue = 0
    /\ worker.setting = 2
    /\ worker.handlerLimit = 2
    /\ InFlight(worker) # {}

(***************************************************************************)
(* The metadata refresh: the catalog is read, the tables, partitions and   *)
(* snapshots tables are rewritten.  The catalog does not change during a   *)
(* behaviour.  One RefreshTableFull runs at a time (the periodic module    *)
(* and a request take turns between tables); each of its three steps is    *)
(* one action, since each step runs in a transaction of its own and a      *)
(* failing step leaves the stores as it found them.                        *)
(***************************************************************************)
MaxFiles == 2
MaxRequests == 2

smallFileThresholdBytes == 134217728

PartitionKeys == {"2025-06-01", "2025-06-02"}

FileSizes == {smallFileThresholdBytes - 1, smallFileThresholdBytes, smallFileThresholdBytes + 1}

DataFile(key, size) == [partition |-> key, size |-> size]

\* Partition keys in date order.
KeyBefore(a, b) == a = "2025-06-01" /\ b = "2025-06-02"

FileBeforeOrSame(f, g) ==
    \/ KeyBefore(f.partition, g.partition)
    \/ f.partition = g.partition /\ f.size <= g.size

\* The data files of a table's current snapshot, as PlanFiles yields them.
\* ListPartitions only groups and counts the files, so of the lists that
\* differ in the order of their files one is taken.
FileLists ==
    {files \in UNION {[1..n -> {DataFile(k, b) : k \in PartitionKeys, b \in FileSizes}] : n \in 0..MaxFiles} :
        \A i \in DOMAIN files : i > 1 => FileBeforeOrSame(files[i - 1], files[i])}

\* Faulty variant: a file of exactly the threshold counts as small.
IsSmallFileInclusive(size) == size <= smallFileThresholdBytes

IsSmallFile(size) == size < smallFileThresholdBytes

\* IcebergClient.ListPartitions: the files grouped by partition key, with
\* the number of files and of small files of each group.
ListPartitions(files) ==
    {[partition |-> k,
      file_count |-> Cardinality({i \in DOMAIN files : files[i].partition = k}),
      small_file_count |->
          Cardinality({i \in DOMAIN files : files[i].partition = k /\ IsSmallFile(files[i].size)})] :
        k \in {files[i].partition : i \in DOMAIN files}}

\* The partition row stored for one group of ListPartitions.
StoredPartition(table, stats) ==
    [table |-> table, partition |-> stats.partition, file_count |-> stats.file_count,
     needs_optimize_count |-> stats.small_file_count,
     needs_optimize |-> stats.small_file_count > 0]

\* The snapshot rows and the descriptor row built from the catalog.
StoredSnapshot(table, snap) == [table |-> table, snapshot_id |-> snap]

StoredTable(table, entry) == [name |-> table, columns |-> entry.columns]

\* Faulty variant: the rows of the table are not deleted before the insert.
DeleteNothing(rows, table) == rows

\* DELETE FROM partitions WHERE table = ?
DeletePartitions(rows, table) == [r \in {x \in DOMAIN rows : x.table # table} |-> rows[r]]

\* INSERT of the records into a table without primary key.
InsertPartitions(rows, records) == rows (+) SetToBag(records)

\* DELETE FROM snapshots WHERE table = ?
DeleteSnapshots(rows, table) == {r \in rows : r.table # table}

\* REPLACE INTO snapshots: a row with the same (table, snapshot_id) gives way.
ReplaceSnapshots(rows, records) ==
    {r \in rows : ~\E n \in records : n.table = r.table /\ n.snapshot_id = r.snapshot_id} \cup records

\* REPLACE INTO tables: a row with the same name gives way.
ReplaceTable(rows, record) == {r \in rows : r.name # record.name} \cup {record}

CatalogEntry(columns, files, snaps) == [columns |-> columns, files |-> files, snapshots |-> snaps]

\* What the three steps store for a table of the given catalog.
AfterRefresh(stores, catalog, table) ==
    [tables |-> ReplaceTable(stores.tables, StoredTable(table, catalog[table])),
     partitions |->
         InsertPartitions(DeletePartitions(stores.partitions, table),
                          {StoredPartition(table, st) : st \in ListPartitions(catalog[table].files)}),
     snapshots |->
         ReplaceSnapshots(DeleteSnapshots(stores.snapshots, table),
                          {StoredSnapshot(table, sn) : sn \in catalog[table].snapshots})]

\* The catalog of an earlier day, and the stores a refresh of both tables
\* against it has left.
OldCatalog ==
    [t \in Tables |->
        IF t = "events"
        THEN CatalogEntry(1, <<DataFile("2025-05-31", smallFileThresholdBytes - 1),
                                DataFile("2025-05-31", smallFileThresholdBytes + 1)>>, {1})
        ELSE CatalogEntry(1, <<DataFile("2025-05-31", smallFileThresholdBytes - 1)>>, {7})]

NoStores == [tables |-> {}, partitions |-> EmptyBag, snapshots |-> {}]

OldStores == AfterRefresh(AfterRefresh(NoStores, OldCatalog, "events"), OldCatalog, "orders")

\* The catalog's listing of the tables.
TableListing == <<"events", "orders">>

\* RefreshTableFull: the three steps in order; a failing step ends the call.
RefreshTableFull(owner, table) ==
    [owner |-> owner, table |-> table, step |-> "describe", failedAt |-> "none"]

StepAfter(step) ==
    CASE step = "describe" -> "partitions"
      [] step = "partitions" -> "snapshots"
      [] step = "snapshots" -> "ok"

StepFailed(full) == [full EXCEPT !.step = "failed", !.failedAt = full.step]

StepDone(full) == [full EXCEPT !.step = StepAfter(full.step)]

\* ServiceRefresh.RefreshTable: describe the table and replace its descriptor.
RefreshTable(ok) ==
    /\ refresh.full.step = "describe"
    /\ LET table == refresh.full.table
       IN  refresh' =
               IF ok
               THEN [refresh EXCEPT
                        !.tables = ReplaceTable(@, StoredTable(table, refresh.catalog[table])),
                        !.full = StepDone(@)]
               ELSE [refresh EXCEPT !.full = StepFailed(@)]
    /\ UNCHANGED <<tasks, nextId, now, partitions, calls, claim, worker, admin, executor>>

\* ServiceRefresh.RefreshPartitions: delete the table's rows, list the
\* partitions, read the stored descriptor, insert the new rows.
RefreshPartitions(ok) ==
    /\ refresh.full.step = "partitions"
    /\ LET table == refresh.full.table
           described == \E d \in refresh.tables : d.name = table
           records == {StoredPartition(table, st) : st \in ListPartitions(refresh.catalog[table].files)}
       IN  refresh' =
               IF ok /\ described
               THEN [refresh EXCEPT
                        !.partitions = InsertPartitions(DeletePartitions(@, table), records),
                        !.refreshed[table] = IF @ < 2 THEN @ + 1 ELSE @,
                        !.full = StepDone(@)]
               ELSE [refresh EXCEPT !.full = StepFailed(@)]
    /\ UNCHANGED <<tasks, nextId, now, partitions, calls, claim, worker, admin, executor>>

\* ServiceRefresh.RefreshSnapshots: delete the table's rows, list the
\* snapshots, replace them into the table.
RefreshSnapshots(ok) ==
    /\ refresh.full.step = "snapshots"
    /\ LET table == refresh.full.table
           records == {StoredSnapshot(table, sn) : sn \in refresh.catalog[table].snapshots}
       IN  refresh' =
               IF ok
               THEN [refresh EXCEPT
                        !.snapshots = ReplaceSnapshots(DeleteSnapshots(@, table), records),
                        !.full = StepDone(@)]
               ELSE [refresh EXCEPT !.full = StepFailed(@)]
    /\ UNCHANGED <<tasks, nextId, now, partitions, calls, claim, worker, admin, executor>>

\* ModuleRefresh.Run, the ticker fires: runRefreshCycle lists the tables; a
\* listing error is logged and the cycle is over.
RefreshTick(listOk) ==
    /\ refresh.module.pc = "wait"
    /\ refresh' =
           IF listOk
           THEN [refresh EXCEPT !.module = [@ EXCEPT !.pc = "cycle", !.i = 1, !.listing = TableListing,
                                                     !.called = <<>>, !.failed = {},
                                                     !.listFailed = FALSE]]
           ELSE [refresh EXCEPT !.module.listFailed = TRUE]
    /\ UNCHANGED <<tasks, nextId, now, partitions, calls, claim, worker, admin, executor>>

\* Faulty variant: the first failing table ends the cycle.
AfterTableStop(module, table, failed) ==
    IF failed \/ module.i = Len(module.listing)
    THEN [module EXCEPT !.pc = "wait", !.failed = IF failed THEN @ \cup {table} ELSE @]
    ELSE [module EXCEPT !.i = @ + 1]

\* runRefreshCycle after the transaction of one table: an error is logged,
\* the loop goes on; after the last table the cycle is over.
AfterTable(module, table, failed) ==
    LET logged == [module EXCEPT !.failed = IF failed THEN @ \cup {table} ELSE @]
    IN  IF module.i = Len(module.listing)
        THEN [logged EXCEPT !.pc = "wait"]
        ELSE [logged EXCEPT !.i = @ + 1]

\* Faulty variant: a transaction helper that runs its function although
\* the context is done.
CycleRefreshTableAnyway ==
    /\ refresh.module.pc = "cycle"
    /\ refresh.full.owner = "none"
    /\ LET table == refresh.module.listing[refresh.module.i]
       IN  refresh' = [refresh EXCEPT !.full = RefreshTableFull("module", table),
                                       !.module.called = Append(@, table)]
    /\ UNCHANGED <<tasks, nextId, now, partitions, calls, claim, worker, admin, executor>>

\* runRefreshCycle, the loop body: WithTx around RefreshTableFull for the
\* next table.  The loop has no check of the context of its own; with the
\* context done the transaction cannot begin, WithTx returns the error
\* without calling its function, the error is logged and the loop goes on.
CycleRefreshTable ==
    /\ refresh.module.pc = "cycle"
    /\ refresh.full.owner = "none"
    /\ LET table == refresh.module.listing[refresh.module.i]
       IN  refresh' =
               IF refresh.module.cancelled
               THEN [refresh EXCEPT !.module = AfterTable(@, table, TRUE)]
               ELSE [refresh EXCEPT !.full = RefreshTableFull("module", table),
                                    !.module.called = Append(@, table)]
    /\ UNCHANGED <<tasks, nextId, now, partitions, calls, claim, worker, admin, executor>>

\* The context of Run is cancelled, at any moment before Run returns.
RefreshCancel ==
    /\ refresh.module.pc # "returned"
    /\ ~refresh.module.cancelled
    /\ refresh' = [refresh EXCEPT !.module.cancelled = TRUE]
    /\ UNCHANGED <<tasks, nextId, now, partitions, calls, claim, worker, admin, executor>>

CycleTableReturns ==
    /\ refresh.full.owner = "module"
    /\ refresh.full.step \in {"ok", "failed"}
    /\ refresh' = [refresh EXCEPT
                      !.module = AfterTable(@, refresh.full.table, refresh.full.step = "failed"),
                      !.full = NoFull]
    /\ UNCHANGED <<tasks, nextId, now, partitions, calls, claim, worker, admin, executor>>

\* ModuleRefresh.Run, the context is done while the module waits.
RefreshRunReturns ==
    /\ refresh.module.pc = "wait"
    /\ refresh' = [refresh EXCEPT !.module.pc = "returned"]
    /\ UNCHANGED <<tasks, nextId, now, partitions, calls, claim, worker, admin, executor>>

\* HandlerRefresh.RefreshTable: the request calls RefreshTableFull.
HandlerRefreshTable(table) ==
    /\ refresh.request.pc \in {"idle", "done"}
    /\ refresh.request.count < MaxRequests
    /\ refresh.full.owner = "none"
    /\ refresh' = [refresh EXCEPT
                      !.full = RefreshTableFull("handler", table),
                      !.request = [pc |-> "run", table |-> table, err |-> FALSE, count |-> @.count + 1]]
    /\ UNCHANGED <<tasks, nextId, now, partitions, calls, claim, worker, admin, executor>>

\* Faulty variant: the handler answers ok whatever the service returned.
HandlerResponseOk(request, failed) == [request EXCEPT !.pc = "done", !.err = FALSE]

\* HandlerRefresh.RefreshTable: the error of the service is returned.
HandlerResponse(request, failed) == [request EXCEPT !.pc = "done", !.err = failed]

HandlerRefreshReturns ==
    /\ refresh.full.owner = "handler"
    /\ refresh.full.step \in {"ok", "failed"}
    /\ refresh' = [refresh EXCEPT
                      !.request = HandlerResponse(@, refresh.full.step = "failed"),
                      !.full = NoFull]
    /\ UNCHANGED <<tasks, nextId, now, partitions, calls, claim, worker, admin, executor>>

InitRefresh ==
    /\ tasks = <<>>
    /\ nextId = 1
    /\ now = 0
    /\ partitions = {}
    /\ calls = [p \in Callers |-> IdleCall]
    /\ claim = [c \in Claimers |-> IdleClaim]
    /\ worker = IdleWorker
    /\ admin = NoAdmin
    /\ executor = NoExecutor
    /\ \E files \in FileLists, stores \in {NoStores, OldStores} :
          refresh = [NoRefresh EXCEPT
                        !.catalog = [t \in Tables |->
                                        IF t = "events"
                                        THEN CatalogEntry(2, files, {1, 2})
                                        ELSE CatalogEntry(1, <<DataFile("2025-06-01", smallFileThresholdBytes)>>, {7})],
                        !.tables = stores.tables,
                        !.partitions = stores.partitions,
                        !.snapshots = stores.snapshots]

NextRefresh ==
    \/ \E ok \in BOOLEAN : RefreshTable(ok)
    \/ \E ok \in BOOLEAN : RefreshPartitions(ok)
    \/ \E ok \in BOOLEAN : RefreshSnapshots(ok)
    \/ \E listOk \in BOOLEAN : RefreshTick(listOk)
    \/ CycleRefreshTable
    \/ CycleTableReturns
    \/ RefreshRunReturns
    \/ \E table \in Tables : HandlerRefreshTable(table)
    \/ HandlerRefreshReturns

SpecRefresh == InitRefresh /\ [][NextRefresh]_vars

(***************************************************************************)
(* Properties of the metadata refresh.                                     *)
(***************************************************************************)
\* The data files of a partition of a table in the catalog.
FilesOf(table, key) ==
    {i \in DOMAIN refresh.catalog[table].files : refresh.catalog[table].files[i].partition = key}

\* The stored partition rows of a table, without their multiplicity.
RowsOf(rows, table) == {r \in DOMAIN rows : r.table = table}

\* C23: after a completed partition refresh every stored partition row has
\* needs_optimize exactly when needs_optimize_count > 0 and
\* needs_optimize_count <= file_count, and the rows of a refreshed table
\* count the data files of their partition: file_count all of them,
\* needs_optimize_count those smaller than 128 MiB.
NeedsOptimizeCounts ==
    /\ \A r \in DOMAIN refresh.partitions :
          /\ r.needs_optimize <=> r.needs_optimize_count > 0
          /\ r.needs_optimize_count <= r.file_count
    /\ \A t \in Tables :
          refresh.refreshed[t] > 0 =>
              \A r \in RowsOf(refresh.partitions, t) :
                  /\ r.file_count = Cardinality(FilesOf(t, r.partition))
                  /\ r.needs_optimize_count =
                         Cardinality({i \in FilesOf(t, r.partition) :
                                         refresh.catalog[t].files[i].size < 128 * 1024 * 1024})

\* A refreshed partition of two files, one of them of exactly 128 MiB and
\* one smaller.
ThresholdFileCounted ==
    /\ refresh.refreshed["events"] > 0
    /\ \E r \in RowsOf(refresh.partitions, "events") :
          /\ r.file_count = 2
          /\ r.needs_optimize_count = 1
          /\ r.needs_optimize
          /\ \E i \in FilesOf("events", r.partition) :
                refresh.catalog["events"].files[i].size = 128 * 1024 * 1024

\* C24: a partition refresh of a table whose partitions were refreshed
\* before, against the same catalog, leaves the stored partition rows as
\* they were; after any partition refresh the table has one row per
\* partition of the catalog, each stored once, and the rows of the other
\* tables are those of before.
RefreshPartitionsIdempotent ==
    [][(refresh.full.step = "partitions" /\ refresh'.full.step = "snapshots") =>
          LET table == refresh.full.table
          IN  /\ refresh.refreshed[table] > 0 => refresh'.partitions = refresh.partitions
              /\ \A r \in RowsOf(refresh'.partitions, table) : CopiesIn(r, refresh'.partitions) = 1
              /\ {r.partition : r \in RowsOf(refresh'.partitions, table)} =
                     {k \in PartitionKeys : FilesOf(table, k) # {}}
              /\ \A r \in DOMAIN refresh.partitions \cup DOMAIN refresh'.partitions :
                    r.table # table => CopiesIn(r, refresh'.partitions) = CopiesIn(r, refresh.partitions)]_vars

\* The partitions of events refreshed twice over stores that held rows of
\* an earlier day; the rows of orders are still the earlier ones.
RefreshedTwice ==
    /\ refresh.refreshed["events"] = 2
    /\ refresh.refreshed["orders"] = 0
    /\ RowsOf(refresh.partitions, "events") # {}
    /\ \E r \in RowsOf(refresh.partitions, "orders") : r.partition = "2025-05-31"

CycleSurvivesFailure ==
    [][/\ (refresh.module.pc = "cycle" /\ refresh'.module.pc # "cycle") =>
              refresh'.module.pc = "wait" /\ refresh'.module.called = refresh.module.listing
       /\ (refresh.full.owner = "module" /\ refresh.full.step = "failed" /\ refresh'.full # refresh.full) =>
              /\ refresh.full.table \in refresh'.module.failed
              /\ refresh.module.i < Len(refresh.module.listing) => refresh'.module.pc = "cycle"
       /\ (refresh'.module.listFailed /\ ~refresh.module.listFailed) =>
              refresh'.module.pc = "wait" /\ refresh'.module.called = refresh.module.called]_vars

\* A cycle is over in which the first table failed and the second was
\* refreshed all the same.
CycleWentOn ==
    /\ refresh.module.pc = "wait"
    /\ refresh.module.failed = {"events"}
    /\ refresh.module.called = TableListing
    /\ refresh.refreshed["orders"] > 0

(***************************************************************************)
(* The maintenance executor: ExecuteOptimize looks up the day column of    *)
(* the stored table descriptor and sends one statement to the engine.      *)
(***************************************************************************)
MaxLevels == 2

TablePartition(name, isHidden, column, type) ==
    [name |-> name, is_hidden |-> isHidden, hidden |-> [column |-> column, type |-> type]]

\* Partition levels of a stored descriptor: an identity level and hidden
\* levels over two timestamp columns.
PartitionLevels ==
    {TablePartition("region", FALSE, "", ""),
     TablePartition("created_at_day", TRUE, "created_at", "day"),
     TablePartition("updated_at_day", TRUE, "updated_at", "day"),
     TablePartition("created_at_month", TRUE, "created_at", "month")}

Descriptors == UNION {[1..n -> PartitionLevels] : n \in 0..MaxLevels}

OptimizeDays == {1, 2}

OptimizeThresholds == {0, defaultFileSizeThresholdMb}

\* The loop over desc.Partitions.Get(): every matching level assigns the
\* column, so the value after the loop is that of the last matching level.
RECURSIVE DayColumn(_, _)
DayColumn(levels, column) ==
    IF levels = <<>>
    THEN column
    ELSE LET p == Head(levels)
         IN  DayColumn(Tail(levels),
                       IF p.is_hidden /\ p.hidden.type = "day" THEN p.hidden.column ELSE column)

OptimizeStatement(table, threshold, column, from, to) ==
    [table |-> table, threshold |-> threshold, column |-> column, from |-> from, to |-> to]

\* ServiceMaintenanceExecutor.ExecuteOptimize: the checks in the order of
\* the code, then the engine statement.
ExecuteOptimizeResult(in, metaOk, trinoOk) ==
    LET column == DayColumn(in.levels, "")
        stmt == OptimizeStatement(in.table, in.threshold, column, in.from, in.to)
    IN  CASE in.threshold < 1 ->
                 [err |-> "file size threshold must be at least 1", statements |-> <<>>]
          [] in.threshold >= 1 /\ in.from > in.to ->
                 [err |-> "from date must be before or equal to to date", statements |-> <<>>]
          [] in.threshold >= 1 /\ in.from <= in.to /\ ~metaOk ->
                 [err |-> "could not get table metadata", statements |-> <<>>]
          [] in.threshold >= 1 /\ in.from <= in.to /\ metaOk /\ column = "" ->
                 [err |-> "no suitable day-partition column found for optimization",
                  statements |-> <<>>]
          [] in.threshold >= 1 /\ in.from <= in.to /\ metaOk /\ column # "" ->
                 [err |-> IF trinoOk THEN "" ELSE "could not optimize table",
                  statements |-> <<stmt>>]

ExecuteOptimize(metaOk, trinoOk) ==
    /\ executor.pc = "optimize"
    /\ LET out == ExecuteOptimizeResult(executor.in, metaOk, trinoOk)
       IN  executor' = [executor EXCEPT !.pc = "done", !.metaOk = metaOk, !.err = out.err,
                                         !.statements = out.statements]
    /\ UNCHANGED <<tasks, nextId, now, partitions, calls, claim, worker, admin, refresh>>

InitOptimize ==
    /\ tasks = <<>>
    /\ nextId = 1
    /\ now = 0
    /\ partitions = {}
    /\ calls = [p \in Callers |-> IdleCall]
    /\ claim = [c \in Claimers |-> IdleClaim]
    /\ worker = IdleWorker
    /\ admin = NoAdmin
    /\ refresh = NoRefresh
    /\ \E levels \in Descriptors, threshold \in OptimizeThresholds, from \in OptimizeDays, to \in OptimizeDays :
          executor = [pc |-> "optimize",
                      in |-> [table |-> "events", levels |-> levels, threshold |-> threshold,
                              from |-> from, to |-> to],
                      metaOk |-> TRUE, err |-> "", statements |-> <<>>]

NextOptimize == \E metaOk \in BOOLEAN, trinoOk \in BOOLEAN : ExecuteOptimize(metaOk, trinoOk)

SpecOptimize == InitOptimize /\ [][NextOptimize]_vars

\* The indexes of the levels that are hidden day levels.
DayLevels(levels) == {i \in DOMAIN levels : levels[i].is_hidden /\ levels[i].hidden.type = "day"}

\* The call got as far as the lookup of the day column.
LookedUp ==
    /\ executor.pc = "done"
    /\ executor.in.threshold >= 1
    /\ executor.in.from <= executor.in.to
    /\ executor.metaOk

\* C29: an optimize call that reaches the lookup sends one statement whose
\* column is that of the first hidden day level of the descriptor; without
\* such a level it fails with "no suitable day-partition column" and sends
\* no statement.
DayColumnIsFirstLevel ==
    LookedUp =>
        LET days == DayLevels(executor.in.levels)
        IN  IF days = {}
            THEN /\ executor.err = "no suitable day-partition column found for optimization"
                 /\ executor.statements = <<>>
            ELSE LET first == CHOOSE i \in days : \A j \in days : i <= j
                 IN  /\ Len(executor.statements) = 1
                     /\ executor.statements[1].column = executor.in.levels[first].hidden.column

\* What the code does: the column is that of the last hidden day level.
DayColumnIsLastLevel ==
    LookedUp =>
        LET days == DayLevels(executor.in.levels)
        IN  IF days = {}
            THEN /\ executor.err = "no suitable day-partition column found for optimization"
                 /\ executor.statements = <<>>
            ELSE LET last == CHOOSE i \in days : \A j \in days : i >= j
                 IN  /\ Len(executor.statements) = 1
                     /\ executor.statements[1].column = executor.in.levels[last].hidden.column

(***************************************************************************)
(* DateTime and its JSON conversion.  A JSON text is modelled by its       *)
(* parts, a time by its instant: days since 0001-01-01, the day of the     *)
(* zero time, seconds and nanoseconds of that day in UTC, and by the zone  *)
(* offset in minutes.                                                      *)
(***************************************************************************)
MaxFracLen == 2

JsonNull == [kind |-> "null"]

JsonNumber == [kind |-> "number"]

JsonString(body) == [kind |-> "string", body |-> body]

\* The content of a JSON string: empty, a date YYYY-MM-DD, an RFC 3339
\* timestamp, or another text of the given length; pad tells whether
\* white space surrounds it.
EmptyBody(pad) == [form |-> "empty", pad |-> pad]

DateBody(pad, y, m, d) == [form |-> "date", pad |-> pad, y |-> y, m |-> m, d |-> d]

TimestampBody(pad, y, m, d, h, mi, sec, frac, zone) ==
    [form |-> "rfc3339", pad |-> pad, y |-> y, m |-> m, d |-> d, h |-> h, mi |-> mi, s |-> sec,
     frac |-> frac, zone |-> zone]

OtherBody(pad, len) == [form |-> "other", pad |-> pad, len |-> len]

Time(day, sec, nsec, off) == [day |-> day, sec |-> sec, nsec |-> nsec, off |-> off]

\* The zero time.Time, with its instant.
ZeroInstant == Time(0, 0, 0, 0)

\* t.IsZero()
IsZeroInstant(t) == t.day = 0 /\ t.sec = 0 /\ t.nsec = 0

ValidDate(y, m, d) == m \in 1..12 /\ d >= 1 /\ d <= DaysIn(y, m)

RECURSIVE DaysBeforeMonth(_, _)
DaysBeforeMonth(y, m) == IF m = 1 THEN 0 ELSE DaysBeforeMonth(y, m - 1) + DaysIn(y, m - 1)

\* Days from 0001-01-01 to the given date.
DaysSinceZero(y, m, d) ==
    365 * (y - 1) + ((y - 1) \div 4) - ((y - 1) \div 100) + ((y - 1) \div 400)
        + DaysBeforeMonth(y, m) + d - 1

RECURSIVE MonthOfYearDay(_, _, _)
MonthOfYearDay(y, m, yday) ==
    IF yday < DaysIn(y, m) THEN [m |-> m, d |-> yday + 1]
    ELSE MonthOfYearDay(y, m + 1, yday - DaysIn(y, m))

\* The date of a day number, by cycles of 400, 100, 4 and 1 years.
DateOfDays(days) ==
    LET n400 == days \div 146097
        d400 == days % 146097
        c100 == d400 \div 36524
        n100 == IF c100 = 4 THEN 3 ELSE c100
        d100 == d400 - 36524 * n100
        n4 == d100 \div 1461
        d4 == d100 - 1461 * n4
        c1 == d4 \div 365
        n1 == IF c1 = 4 THEN 3 ELSE c1
        yday == d4 - 365 * n1
        y == 400 * n400 + 100 * n100 + 4 * n4 + n1 + 1
        md == MonthOfYearDay(y, 1, yday)
    IN  [y |-> y, m |-> md.m, d |-> md.d]

\* The digits after the decimal point as nanoseconds, and back, without
\* trailing zeros.
RECURSIVE Pow10(_)
Pow10(n) == IF n = 0 THEN 1 ELSE 10 * Pow10(n - 1)

RECURSIVE ParseFrac(_, _)
ParseFrac(digits, place) ==
    IF digits = <<>> THEN 0
    ELSE Head(digits) * Pow10(9 - place) + ParseFrac(Tail(digits), place + 1)

RECURSIVE FracDigits(_, _)
FracDigits(nsec, place) ==
    IF nsec = 0 THEN <<>>
    ELSE <<nsec \div Pow10(9 - place)>> \o FracDigits(nsec % Pow10(9 - place), place + 1)

\* The zone of a timestamp text: "Z", or an offset "+hh:mm" in minutes.
Zulu == [zulu |-> TRUE, minutes |-> 0]

ZoneOffset(minutes) == [zulu |-> FALSE, minutes |-> minutes]

ZoneMinutes(zone) == zone.minutes

\* time.ParseInLocation(dateOnlyLayout, s, time.UTC)
ParseDateOnly(body) ==
    IF body.form = "date" /\ ValidDate(body.y, body.m, body.d)
    THEN [ok |-> TRUE, t |-> Time(DaysSinceZero(body.y, body.m, body.d), 0, 0, 0)]
    ELSE [ok |-> FALSE, t |-> ZeroInstant]

\* time.Parse(time.RFC3339Nano, s), and time.Parse(time.RFC3339, s), which
\* accepts the same texts.
ParseRFC3339(body) ==
    IF /\ body.form = "rfc3339"
       /\ ValidDate(body.y, body.m, body.d)
       /\ body.h \in 0..23 /\ body.mi \in 0..59 /\ body.s \in 0..59
    THEN LET utc == body.h * 3600 + body.mi * 60 + body.s - ZoneMinutes(body.zone) * 60
         IN  [ok |-> TRUE,
              t |-> Time(DaysSinceZero(body.y, body.m, body.d) + (utc \div 86400), utc % 86400,
                         ParseFrac(body.frac, 1), ZoneMinutes(body.zone))]
    ELSE [ok |-> FALSE, t |-> ZeroInstant]

\* The fields of a time in its own zone.
TimestampOf(t, frac) ==
    LET local == t.sec + t.off * 60
        date == DateOfDays(t.day + (local \div 86400))
        rest == local % 86400
    IN  TimestampBody(FALSE, date.y, date.m, date.d, rest \div 3600, (rest % 3600) \div 60, rest % 60,
                      frac, IF t.off = 0 THEN Zulu ELSE ZoneOffset(t.off))

\* Faulty variant: t.Format(time.RFC3339), without the fraction.
FormatRFC3339(t) == TimestampOf(t, <<>>)

\* t.Format(time.RFC3339Nano)
FormatRFC3339Nano(t) == TimestampOf(t, FracDigits(t.nsec, 1))

\* len(s) of the trimmed text.
BodyLen(body) ==
    CASE body.form = "empty" -> 0
      [] body.form = "date" -> 10
      [] body.form = "rfc3339" -> 20
      [] body.form = "other" -> body.len

\* DateTime.UnmarshalJSON into a DateTime holding prev: the time stored
\* and whether an error is returned; on an error the time is left alone.
UnmarshalJSON(prev, b) ==
    IF b.kind = "null" THEN [t |-> ZeroInstant, err |-> FALSE]
    ELSE IF b.kind # "string" THEN [t |-> prev, err |-> TRUE]
    ELSE IF b.body.form = "empty" THEN [t |-> ZeroInstant, err |-> FALSE]
    ELSE IF BodyLen(b.body) = 10 /\ ParseDateOnly(b.body).ok
         THEN [t |-> ParseDateOnly(b.body).t, err |-> FALSE]
    ELSE IF ParseRFC3339(b.body).ok THEN [t |-> ParseRFC3339(b.body).t, err |-> FALSE]
    ELSE [t |-> prev, err |-> TRUE]

\* DateTime.MarshalJSON
MarshalJSON(t) == IF IsZeroInstant(t) THEN JsonNull ELSE JsonString(FormatRFC3339Nano(t))

\* The JSON texts and the times the conversions are applied to.
FracTexts == UNION {[1..n -> {0, 5}] : n \in 0..MaxFracLen}

JsonDates == {<<y, m, d>> : y \in {1, 2024, 2026}, m \in {1, 2, 12}, d \in {1, 29, 31}}

JsonClocks == {<<0, 0, 0>>, <<12, 34, 56>>, <<23, 59, 59>>}

JsonZones == {Zulu, ZoneOffset(0), ZoneOffset(60), ZoneOffset(-90)}

JsonBodies ==
    {EmptyBody(pad) : pad \in BOOLEAN}
        \cup {OtherBody(pad, len) : pad \in BOOLEAN, len \in {9, 10, 20}}
        \cup {DateBody(pad, date[1], date[2], date[3]) : pad \in BOOLEAN, date \in JsonDates}
        \cup UNION {{TimestampBody(pad, date[1], date[2], date[3], clock[1], clock[2], clock[3], frac, zone) :
                        pad \in BOOLEAN, date \in JsonDates, clock \in JsonClocks, zone \in JsonZones} :
                    frac \in FracTexts}

JsonInputs == {JsonNull, JsonNumber} \cup {JsonString(body) : body \in JsonBodies}

TimeValues ==
    {Time(day, sec, nsec, off) : day \in {0, DaysSinceZero(2026, 1, 1)}, sec \in {0, 45296},
                                 nsec \in {0, 1, 500000000}, off \in {0, 60, -90}}

NoJson == [kind |-> "none"]

\* json.Unmarshal of the input into a DateTime.
Unmarshal ==
    /\ executor.pc = "text"
    /\ LET r == UnmarshalJSON(executor.value, executor.input)
       IN  executor' = [executor EXCEPT !.pc = IF r.err THEN "error" ELSE "value",
                                         !.value = r.t, !.err = r.err]
    /\ UNCHANGED <<tasks, nextId, now, partitions, calls, claim, worker, admin, refresh>>

\* json.Marshal of the DateTime.
Marshal ==
    /\ executor.pc = "value"
    /\ executor' = [executor EXCEPT !.pc = "marshalled", !.text = MarshalJSON(executor.value)]
    /\ UNCHANGED <<tasks, nextId, now, partitions, calls, claim, worker, admin, refresh>>

\* json.Unmarshal of the marshalled text into a DateTime that held another
\* time.
UnmarshalMarshalled ==
    /\ executor.pc = "marshalled"
    /\ LET r == UnmarshalJSON(executor.again, executor.text)
       IN  executor' = [executor EXCEPT !.pc = "again", !.again = r.t, !.againErr = r.err]
    /\ UNCHANGED <<tasks, nextId, now, partitions, calls, claim, worker, admin, refresh>>

InitDateTime ==
    /\ tasks = <<>>
    /\ nextId = 1
    /\ now = 0
    /\ partitions = {}
    /\ calls = [p \in Callers |-> IdleCall]
    /\ claim = [c \in Claimers |-> IdleClaim]
    /\ worker = IdleWorker
    /\ admin = NoAdmin
    /\ refresh = NoRefresh
    /\ \/ \E input \in JsonInputs, held \in {ZeroInstant, Time(0, 59, 0, 0)} :
             executor = [pc |-> "text", input |-> input, value |-> held, err |-> FALSE,
                         text |-> NoJson, again |-> Time(0, 59, 0, 0), againErr |-> FALSE]
       \/ \E value \in TimeValues :
             executor = [pc |-> "value", input |-> NoJson, value |-> value, err |-> FALSE,
                         text |-> NoJson, again |-> Time(0, 59, 0, 0), againErr |-> FALSE]

NextDateTime ==
    \/ Unmarshal
    \/ Marshal
    \/ UnmarshalMarshalled

SpecDateTime == InitDateTime /\ [][NextDateTime]_vars

\* C28: a date YYYY-MM-DD unmarshals to midnight UTC of that date, an
\* RFC 3339 text to its instant, null and the empty string to the zero
\* time; the zero time marshals to null, any other time to an RFC 3339
\* text; and unmarshalling the marshalled text gives the instant that was
\* marshalled.
DateTimeJsonRoundTrip ==
    /\ (executor.pc \in {"value", "marshalled", "again"} /\ executor.input.kind = "null") =>
           executor.value = ZeroInstant
    /\ (executor.pc \in {"value", "marshalled", "again"} /\ executor.input.kind = "string") =>
           LET body == executor.input.body
               v == executor.value
           IN  /\ body.form = "empty" => v = ZeroInstant
               /\ body.form = "date" =>
                      /\ v.off = 0 /\ v.nsec = 0 /\ v.sec = 0
                      /\ DateOfDays(v.day) = [y |-> body.y, m |-> body.m, d |-> body.d]
               /\ body.form = "rfc3339" =>
                      LET local == v.sec + ZoneMinutes(body.zone) * 60
                      IN  /\ DateOfDays(v.day + (local \div 86400)) =
                                 [y |-> body.y, m |-> body.m, d |-> body.d]
                          /\ local % 86400 = body.h * 3600 + body.mi * 60 + body.s
                          /\ v.nsec = ParseFrac(body.frac, 1)
               /\ body.form \notin {"other"}
    /\ executor.pc \in {"marshalled", "again"} =>
           /\ (executor.text = JsonNull) <=>
                  (executor.value.day = 0 /\ executor.value.sec = 0 /\ executor.value.nsec = 0)
           /\ executor.text # JsonNull =>
                  executor.text.kind = "string" /\ executor.text.body.form = "rfc3339"
    /\ executor.pc = "again" =>
           /\ ~executor.againErr
           /\ executor.again.day = executor.value.day
           /\ executor.again.sec = executor.value.sec
           /\ executor.again.nsec = executor.value.nsec

\* A timestamp with a fraction and a zone offset has been unmarshalled,
\* marshalled and unmarshalled again.
TimestampRoundTripped ==
    /\ executor.pc = "again"
    /\ executor.input.kind = "string"
    /\ executor.input.body.form = "rfc3339"
    /\ executor.input.body.zone = ZoneOffset(60)
    /\ executor.input.body.frac = <<0, 5>>
    /\ executor.input.body.pad
    /\ executor.value.nsec = 50000000
    /\ executor.again = [executor.value EXCEPT !.off = 60]

(***************************************************************************)
(* ClaimTask under contention: claimers racing over a stored queue         *)
(***************************************************************************)
MaxContendRows == 4

\* Queues of queued rows of the same age, as EnqueueTask leaves them.
ContendQueues ==
    [1..MaxContendRows ->
        {NewEntry(t, "remove_orphan_files", OrphanInput(minRetentionDays), 0) : t \in Tables}]

InitContend ==
    /\ tasks \in ContendQueues
    /\ nextId = MaxContendRows + 1
    /\ now = 1
    /\ partitions = {}
    /\ calls = [p \in Callers |-> IdleCall]
    /\ claim = [c \in Claimers |-> IdleClaim]
    /\ worker = IdleWorker
    /\ admin = NoAdmin
    /\ refresh = NoRefresh
    /\ executor = NoExecutor

NextContend ==
    \/ \E c \in Claimers : ClaimSelect(c, TRUE)
    \/ \E c \in Claimers : ClaimUpdate(c, TRUE)
    \/ \E c \in Claimers : NoTaskClaimed(c)
    \/ \E c \in Claimers, failed \in BOOLEAN : ProcessTask(c, failed)

SpecContend == InitContend /\ [][NextContend]_vars

\* A step of claimer c inside ClaimTask.
ClaimTaskStep(c) == claim[c].pc \in {"idle", "update"} /\ claim'[c] # claim[c]

\* C31: ClaimTask makes at most claimAttempts select-then-update attempts:
\* every lost update either starts the next attempt, with one more attempt
\* counted and fewer than claimAttempts made, or ends the call after the
\* claimAttempts-th; the call that ends so returns no task and no error, and
\* no step of a call that ends without a task changes a row.
ClaimTaskBounded ==
    [][\A c \in Claimers :
          ClaimTaskStep(c) =>
             /\ claim[c].i < claimAttempts
             /\ claim'[c].pc = "idle" =>
                   /\ claim'[c].i = claim[c].i + 1
                   /\ claim'[c].i < claimAttempts
                   /\ tasks' = tasks
             /\ (claim'[c].pc = "returned" /\ claim'[c].ret.id = 0) =>
                   /\ tasks' = tasks
                   /\ claim'[c].ret = NoTask
                   /\ claim[c].pc = "update" => claim'[c].i = claimAttempts
             /\ claim'[c].pc = "update" => tasks' = tasks]_vars

\* A call has returned no task after claimAttempts lost updates while a row
\* it could have claimed is still queued.
ClaimTaskGaveUp ==
    \E c \in Claimers :
       /\ claim[c].pc = "returned"
       /\ claim[c].ret = NoTask
       /\ claim[c].i = claimAttempts
       /\ Candidates(tasks) # {}

(***************************************************************************)
(* The worker module while its capacity is lowered and raised              *)
(***************************************************************************)
MaxCapacity == 3
MaxCapacityTasks == 3

CapacityTables == <<"events", "orders", "clicks">>

\* One queued task per row, the tables taken in turn.
CapacityQueue(n) ==
    [i \in 1..n |->
        NewEntry(CapacityTables[((i - 1) % Len(CapacityTables)) + 1],
                 "remove_orphan_files", OrphanInput(minRetentionDays), 0)]

InitCapacity ==
    /\ tasks \in {CapacityQueue(n) : n \in 0..MaxCapacityTasks}
    /\ nextId = Len(tasks) + 1
    /\ now = 0
    /\ partitions = {}
    /\ calls = [p \in Callers |-> IdleCall]
    /\ claim = [c \in Claimers |-> IdleClaim]
    /\ worker = IdleWorker
    /\ admin = NoAdmin
    /\ refresh = NoRefresh
    /\ executor = NoExecutor

NextCapacity ==
    \/ TickAcquire
    \/ \E fault \in {"none", "select", "update"} : DispatchClaim(fault)
    \/ \E id \in 1..MaxCapacityTasks, engineOk \in BOOLEAN :
          ExecuteTask(id, engineOk, TRUE)
    \/ \E id \in 1..MaxCapacityTasks, dbOk \in BOOLEAN : FinishTask(id, dbOk)
    \/ \E n \in 0..MaxCapacity : SetWorkerCount(n)

SpecCapacity == InitCapacity /\ [][NextCapacity]_vars

\* C32 as stated: while more handlers are in flight than the capacity
\* allows, no task is claimed and no handler starts.
NoClaimAboveCapacity ==
    [][Handlers(worker) > worker.limit =>
          /\ DOMAIN worker'.log = DOMAIN worker.log
          /\ \A id \in DOMAIN tasks :
                tasks'[id].status = "running" => tasks[id].status = "running"]_vars

\* C32: a change of the capacity leaves the handlers, the permits held, the
\* dispatcher and the rows as they are; the dispatcher takes a permit only
\* while the permits held are below the capacity in force at that tick, and a
\* task is claimed only by a tick that holds its permit, also one that took
\* the permit before the capacity was lowered; after a raise above the
\* permits held the same loop is at its ticker with a permit free.
CapacityChangeOnAcquire ==
    [][/\ worker'.limit # worker.limit =>
             /\ worker'.log = worker.log
             /\ worker'.count = worker.count
             /\ worker'.disp = worker.disp
             /\ worker'.returned = worker.returned
             /\ tasks' = tasks
       /\ (worker.disp = "wait" /\ worker'.disp = "claim") =>
             worker.count < worker.limit
       /\ (worker.disp = "wait" /\ worker.count >= worker.limit) =>
             /\ DOMAIN worker'.log = DOMAIN worker.log
             /\ \A id \in DOMAIN tasks :
                   tasks'[id].status = "running" => tasks[id].status = "running"
       /\ \A id \in DOMAIN worker'.log : Starts(id) => worker.disp = "claim"
       /\ (worker'.limit > worker.limit /\ worker.disp = "wait"
           /\ worker.count < worker'.limit) =>
             /\ worker'.disp = "wait"
             /\ worker'.count + 1 <= worker'.limit]_vars

\* The capacity was lowered to 1 with two handlers in flight and the next
\* tick found no permit; both handlers are still at work.
LoweredBelowInFlight ==
    /\ worker.limit = 1
    /\ Handlers(worker) = 2
    /\ worker.tick = "skipped"
    /\ worker.disp = "wait"
    /\ \A id \in InFlight(worker) : tasks[id].status = "running"

(***************************************************************************)
(* The periodic refresh while the context of Run is cancelled              *)
(***************************************************************************)
NextRefreshCancel ==
    \/ \E ok \in BOOLEAN : RefreshTable(ok)
    \/ \E ok \in BOOLEAN : RefreshPartitions(ok)
    \/ \E ok \in BOOLEAN : RefreshSnapshots(ok)
    \/ \E listOk \in BOOLEAN : RefreshTick(listOk)
    \/ CycleRefreshTable
    \/ CycleTableReturns
    \/ RefreshCancel
    \/ RefreshRunReturns

SpecRefreshCancel == InitRefresh /\ [][NextRefreshCancel]_vars

DispatcherPermits(w) == IF w.disp = "claim" THEN 1 ELSE 0

\* C34: the permits held are those of the handlers in flight and the one of
\* the dispatcher while it claims: every permit taken is given back once, by
\* the tick that found no task or got an error, or by the handler when it
\* returns; without a handler in flight or a claim in progress no permit
\* is held.
PermitsAccounted ==
    /\ worker.count = Handlers(worker) + DispatcherPermits(worker)
    /\ (InFlight(worker) = {} /\ worker.disp # "claim") => worker.count = 0

\* A tick ended with a claim error, a handler has returned after its
\* CompleteTask, the dispatcher is back at the ticker and no permit is held.
PermitsAllReturned ==
    /\ worker.tick = "error"
    /\ \E id \in DOMAIN worker.log : worker.log[id].st = "returned"
    /\ InFlight(worker) = {}
    /\ worker.disp = "wait"
    /\ worker.count = 0

(***************************************************************************)
(* Rows that stay in status running.                                       *)
(***************************************************************************)
\* The handler of task id returns from its CompleteTask in this step.
Completes(id) ==
    /\ id \in DOMAIN worker.log
    /\ worker.log[id].st = "executed"
    /\ worker'.log[id].st = "returned"

\* C35: a running row changes only by the CompleteTask of its own handler,
\* which makes it terminal, or by a flush, which deletes it with every other
\* row; a row whose CompleteTask failed, or whose handler never got there,
\* keeps its contents, and while it is stored no queued row of its table is
\* claimed.
RunningRowStays ==
    [][\A id \in DOMAIN tasks :
          tasks[id].status = "running" =>
             /\ id \notin DOMAIN tasks' => (tasks' = <<>> /\ admin'.op = "flush")
             /\ id \in DOMAIN tasks' =>
                   /\ tasks'[id] # tasks[id] =>
                         /\ Completes(id)
                         /\ tasks'[id].status \in {"success", "error"}
                   /\ (Completes(id) /\ tasks'[id] = tasks[id]) =>
                         tasks'[id].status = "running"
                   /\ \A other \in DOMAIN tasks :
                         (tasks[other].status = "queued"
                          /\ tasks[other].table = tasks[id].table) =>
                             tasks'[other] = tasks[other]]_vars

\* The CompleteTask of a task failed and its handler is gone; the row is
\* still running, a task of the same table is queued behind it and the last
\* tick found nothing to claim.
RunningRowStuck ==
    \E id \in DOMAIN tasks :
       /\ tasks[id].status = "running"
       /\ id \in DOMAIN worker.log
       /\ worker.log[id].st = "returned"
       /\ worker.log[id].completeCalls = 1
       /\ worker.tick = "nil"
       /\ worker.disp = "wait"
       /\ worker.count = 0
       /\ \E other \in DOMAIN tasks :
             /\ tasks[other].status = "queued"
             /\ tasks[other].table = tasks[id].table

(***************************************************************************)
(* The worker module under fair scheduling                                 *)
(***************************************************************************)
MaxLiveTasks == 2

\* EnqueueTask while the module runs.
EnqueueLive(table) ==
    /\ nextId <= MaxLiveTasks
    /\ EnqueueTask(table, "remove_orphan_files", OrphanInput(minRetentionDays), now)
    /\ UNCHANGED <<now, partitions, calls, claim, worker, admin, refresh, executor>>

\* The kind handler of task id returns, with or without an error.
HandlerReturns(id) == \E engineOk \in BOOLEAN : ExecuteTask(id, engineOk, TRUE)

\* An empty queue and a module of any capacity.
InitLive ==
    /\ tasks = <<>>
    /\ nextId = 1
    /\ now = 0
    /\ partitions = {}
    /\ calls = [p \in Callers |-> IdleCall]
    /\ claim = [c \in Claimers |-> IdleClaim]
    /\ worker \in {NewWorker(n) : n \in 1..MaxWorkers}
    /\ admin = NoAdmin
    /\ refresh = NoRefresh
    /\ executor = NoExecutor

NextLive ==
    \/ TickAcquire
    \/ DispatchClaim("none")
    \/ \E id \in 1..MaxLiveTasks : HandlerReturns(id)
    \/ \E id \in 1..MaxLiveTasks : FinishTask(id, TRUE)
    \/ \E t \in Tables : EnqueueLive(t)

\* The ticker keeps firing, the database answers every ClaimTask and
\* CompleteTask, and every handler that was started runs to its end.
FairLive ==
    /\ WF_vars(TickAcquire)
    /\ WF_vars(DispatchClaim("none"))
    /\ \A id \in 1..MaxLiveTasks : WF_vars(HandlerReturns(id))
    /\ \A id \in 1..MaxLiveTasks : WF_vars(FinishTask(id, TRUE))

SpecLive == InitLive /\ [][NextLive]_vars /\ FairLive

\* C36: every task that is queued is eventually running and eventually in
\* status success or error, whatever is queued for other tables and whatever
\* is enqueued after it.
EveryTaskFinishes ==
    \A id \in 1..MaxLiveTasks :
       /\ (id \in DOMAIN tasks /\ tasks[id].status = "queued") ~>
             (id \in DOMAIN tasks /\ tasks[id].status = "running")
       /\ (id \in DOMAIN tasks /\ tasks[id].status = "queued") ~>
             (id \in DOMAIN tasks /\ tasks[id].status \in {"success", "error"})

\* Every task that was enqueued, all of one table and so handled one after
\* the other by a module with room for several, has reached a terminal
\* status.
LaterTasksFinished ==
    /\ DOMAIN tasks = 1..MaxLiveTasks
    /\ worker.limit > 1
    /\ \A id \in DOMAIN tasks :
          /\ tasks[id].table = "events"
          /\ tasks[id].status \in {"success", "error"}
          /\ worker.log[id].st = "returned"

(***************************************************************************)
(* Handlers of one table.                                                  *)
(***************************************************************************)
\* The worker module of any capacity while the queue is flushed and refilled.
InitFlushWide ==
    /\ tasks \in WorkerQueues
    /\ nextId = Len(tasks) + 1
    /\ now = 0
    /\ partitions = {}
    /\ calls = [p \in Callers |-> IdleCall]
    /\ claim = [c \in Claimers |-> IdleClaim]
    /\ worker \in {NewWorker(n) : n \in 1..MaxWorkers}
    /\ admin = NoAdmin
    /\ refresh = NoRefresh
    /\ executor = NoExecutor

SpecFlushWide == InitFlushWide /\ [][NextFlush]_vars

\* The handlers whose kind handler, and with it the engine call, has not
\* returned yet.
Executing(w) == {id \in DOMAIN w.log : w.log[id].st = "started"}

\* C37: no two handlers are executing for the same table.
OneHandlerPerTable ==
    \A id, other \in Executing(worker) :
       worker.log[id].table = worker.log[other].table => id = other

(***************************************************************************)
(* EnqueueOptimize when a partition's date or an INSERT fails              *)
(***************************************************************************)
\* Partitions of one table that need optimizing; the last one carries a day
\* its month does not have.
FaultPartitions ==
    {PartitionRow("events", <<"2", "0", "2", "5">>, <<"0", "6">>, <<"0", "9">>, <<"0", "0">>, TRUE),
     PartitionRow("events", <<"2", "0", "2", "5">>, <<"0", "6">>, <<"1", "0">>, <<"0", "0">>, TRUE),
     PartitionRow("events", <<"2", "0", "2", "5">>, <<"0", "6">>, <<"3", "1">>, <<"0", "0">>, TRUE)}

InitPlannerFault ==
    /\ partitions \in SUBSET FaultPartitions
    /\ tasks = <<>>
    /\ nextId = 1
    /\ now = 0
    /\ calls = [p \in Callers |-> IdleCall]
    /\ claim = [c \in Claimers |-> IdleClaim]
    /\ worker = IdleWorker
    /\ admin = NoAdmin
    /\ refresh = NoRefresh
    /\ executor = NoExecutor

NextPlannerFault ==
    \/ \E p \in Callers, mb \in RequestThresholds, to \in {Date(2025, 6, 10), Date(2025, 7, 1)} :
          EnqueueOptimize(p, "events", mb, Date(2025, 6, 9), to)
    \/ \E p \in Callers, dbOk \in BOOLEAN : EnqueueOptimizeLoop(p, dbOk)

SpecPlannerFault == InitPlannerFault /\ [][NextPlannerFault]_vars

\* The ids a call has been given so far.
IdsOf(call) == {call.ids[i] : i \in DOMAIN call.ids}

\* C38: when the loop of EnqueueOptimize ends with an error the call returns
\* no ids, and the tasks it enqueued before are left as they are, stored
\* with status queued; no step of the loop removes or changes a stored row.
EnqueueOptimizeNotAtomic ==
    [][\A p \in Callers :
          (calls[p].pc = "loop" /\ calls'[p] # calls[p]) =>
             /\ \A id \in DOMAIN tasks : id \in DOMAIN tasks' /\ tasks'[id] = tasks[id]
             /\ calls'[p].err =>
                   /\ calls'[p].pc = "done"
                   /\ calls'[p].ids = <<>>
                   /\ tasks' = tasks
                   /\ \A id \in IdsOf(calls[p]) :
                         id \in DOMAIN tasks' /\ tasks'[id].status = "queued"
             /\ ~calls'[p].err =>
                   /\ calls'[p].ids = Append(calls[p].ids, nextId)
                   /\ nextId \in DOMAIN tasks'
                   /\ tasks'[nextId].status = "queued"]_vars

\* The only call made has returned an error and no ids after it had
\* enqueued two tasks, which are stored and queued.
PartialEnqueueLeft ==
    \E p \in Callers :
       /\ calls[p].pc = "done"
       /\ calls[p].err
       /\ calls[p].ids = <<>>
       /\ \A q \in Callers \ {p} : calls[q].pc = "start"
       /\ DOMAIN tasks = {1, 2}
       /\ \A id \in DOMAIN tasks : tasks[id].status = "queued" /\ tasks[id].kind = "optimize"

(***************************************************************************)
(* ClaimTask when the database fails its statements                        *)
(***************************************************************************)
NextClaimFault ==
    \/ \E c \in Claimers, dbOk \in BOOLEAN : ClaimSelect(c, dbOk)
    \/ \E c \in Claimers, dbOk \in BOOLEAN : ClaimUpdate(c, dbOk)
    \/ \E c \in Claimers : NoTaskClaimed(c)
    \/ \E c \in Claimers, failed \in BOOLEAN : ProcessTask(c, failed)

SpecClaimFault == InitWorker /\ [][NextClaimFault]_vars

\* Claimer c returns from ClaimTask in this step.
ClaimReturns(c) == claim[c].pc \in {"idle", "update"} /\ claim'[c].pc = "returned"

\* C39: ClaimTask returns an error only out of its UPDATE, never out of its
\* SELECT, which ends the call with no task and no error or goes on to the
\* UPDATE; a call that returns no task, with or without an error, has
\* changed no row; a call that returns a task has changed that row only,
\* from queued to running with picked_up_at set and every other column as
\* it was.
ClaimErrorsOnlyFromUpdate ==
    [][\A c \in Claimers :
          /\ (claim[c].pc = "idle" /\ claim'[c] # claim[c]) =>
                /\ tasks' = tasks
                /\ claim'[c].ret = NoTask
                /\ claim'[c].pc \in {"returned", "update"}
          /\ (ClaimReturns(c) /\ claim'[c].ret = ClaimFailed) =>
                /\ claim[c].pc = "update"
                /\ tasks' = tasks
          /\ (ClaimReturns(c) /\ claim'[c].ret.id = 0) => tasks' = tasks
          /\ (ClaimReturns(c) /\ claim'[c].ret.id # 0) =>
                LET id == claim'[c].ret.id IN
                /\ id = claim[c].cand
                /\ tasks[id].status = "queued"
                /\ tasks' = [tasks EXCEPT ![id] = [@ EXCEPT !.status = "running",
                                                            !.picked_up_at = now]]
                /\ claim'[c].ret = [id |-> id, status |-> "running", picked_up_at |-> now]]_vars

\* One call has returned no task and no error, another the error of its
\* UPDATE, while every stored row is still queued as it was enqueued: the
\* first call's SELECT failed, for there was a row to claim.
ClaimFailedBothWays ==
    /\ tasks # <<>>
    /\ \A id \in DOMAIN tasks : tasks[id].status = "queued"
    /\ \E c, d \in Claimers :
          /\ claim[c].pc = "returned" /\ claim[c].ret = NoTask /\ claim[c].i = 0
          /\ claim[d].pc = "returned" /\ claim[d].ret = ClaimFailed

(***************************************************************************)
(* The windows of the tasks of one EnqueueOptimize call.                   *)
(***************************************************************************)
\* C40: the tasks that one EnqueueOptimize call has enqueued carry pairwise
\* different days.
DistinctWindows ==
    \A p \in Callers :
       calls[p].op = "optimize" =>
          \A i, j \in DOMAIN calls[p].ids :
             LET a == calls[p].ids[i]
                 b == calls[p].ids[j]
             IN  (a \in DOMAIN tasks /\ b \in DOMAIN tasks
                  /\ tasks[a].input.from = tasks[b].input.from) => i = j

====
